---------------------------- MODULE Spec2Model ----------------------------
(* Model of caret_analyze/graph_search.py: GraphSearcher.search (the      *)
(* depth-first enumeration of callback paths) and                          *)
(* CallbackPathSercher.search (graph construction from communications and  *)
(* variable passings, search, translation of graph paths to callbacks),    *)
(* and of caret_analyze/infra/lttng/lttng_info.py: DataFrameFormatted (the *)
(* tables built from the trace data), LttngInfo (the cached accessors) and *)
(* PublisherBinder (the timing test that binds publishers to callbacks),   *)
(* and of caret_analyze/trace/lttng/lttng.py: Lttng.__init__ (the trace    *)
(* loaded once per directory) and Lttng.compose_variable_passing_records.  *)
EXTENDS Integers, Sequences, FiniteSets, TLC

(* ------------------------------ bounds --------------------------------- *)
\* longest edge list handed to a GraphSearcher
MaxBranches == 3
\* most records (communications, variable passings) of a CallbackPathSercher
MaxRecords == 2

\* callback unique names (GraphNode.name)
NodeOrder == <<"A", "B", "C">>
Nodes == {NodeOrder[i] : i \in 1..Len(NodeOrder)}
\* the callbacks that occur in the records and the nodes of a
\* CallbackPathSercher: any name left is one the object knows nothing of
Traced == {"A", "B"}
\* Python's None
None == "None"

\* depth at which the interpreter raises RecursionError, scaled to the
\* bounds: no search that terminates gets deeper than the number of edges
\* plus one, so only a search that would recurse for ever reaches it
RecursionLimit == MaxBranches + 2 * MaxRecords + 2

VARIABLES
    _branches,            \* GraphSearcher._branches
    _callbacks,           \* CallbackPathSercher._callbacks
    _communications,      \* CallbackPathSercher._communications
    _variable_passings,   \* CallbackPathSercher._variable_passings
    src_node, dst_node,   \* arguments of the latest search call
    graph_paths,          \* what GraphSearcher.search produced in that call
    ret                   \* outcome of the latest call

VARIABLES
    data,                         \* the Ros2DataModel handed to LttngInfo
    _source,                      \* LttngInfo._source / PublisherBinder._source
    _formatted,                   \* LttngInfo._formatted
    _binder_cache,                \* LttngInfo._binder_cache (its keys)
    _timer_cb_cache,              \* LttngInfo._timer_cb_cache
    _sub_cb_cache,                \* LttngInfo._sub_cb_cache
    _pub_cache,                   \* LttngInfo._pub_cache
    _cbg_cache,                   \* LttngInfo._cbg_cache
    _id_to_topic,                 \* LttngInfo._id_to_topic
    _sub_cb_cache_without_pub,    \* LttngInfo._sub_cb_cache_without_pub
    _timer_cb_cache_without_pub,  \* LttngInfo._timer_cb_cache_without_pub
    call,                         \* the latest operation and its arguments
    result,                       \* what that operation returned or raised
    log                           \* what logger.warn was given so far

VARIABLES
    load_dir,                     \* Lttng.load_dir (a class attribute)
    _dataframe,                   \* Lttng._dataframe of the one Lttng object
    _records                      \* Lttng._records of the one Lttng object

searchVars == <<_branches, _callbacks, _communications, _variable_passings,
                src_node, dst_node, graph_paths, ret>>

infoVars == <<data, _source, _formatted, _binder_cache, _timer_cb_cache,
              _sub_cb_cache, _pub_cache, _cbg_cache, _id_to_topic,
              _sub_cb_cache_without_pub, _timer_cb_cache_without_pub,
              call, result, log>>

lttngVars == <<load_dir, _dataframe, _records>>

vars == <<searchVars, infoVars, lttngVars>>

(* --------------------------- data structures --------------------------- *)
\* GraphBranch(src_node, dst_node): arrived starts False.  id stands for the
\* object's identity: the position of the instance in the searcher's list
\* (deepcopy keeps it, so a copy can be traced back to the edge it copies).
GraphBranch(i, s, d) ==
    [id |-> i, src_node |-> s, dst_node |-> d, arrived |-> FALSE]

\* GraphBranch.__eq__: edges compare by (source, destination) only
BranchEq(a, b) == a.src_node = b.src_node /\ a.dst_node = b.dst_node

\* to_graph_nodes without the source of the first edge
to_graph_nodes_no_src(path) == [i \in 1..Len(path) |-> path[i].dst_node]

\* GraphPath.to_graph_nodes
to_graph_nodes(path) ==
    IF Len(path) = 0 THEN <<>>
    ELSE <<path[1].src_node>> \o [i \in 1..Len(path) |-> path[i].dst_node]

\* next(filter(lambda branch_: branch_ == branch, branches_)): position of
\* the first edge of the copied list that compares equal to branch
FirstEqual(branches, branch) ==
    CHOOSE j \in 1..Len(branches) :
        /\ BranchEq(branches[j], branch)
        /\ \A k \in 1..(j - 1) : ~BranchEq(branches[k], branch)

(* ------------------------- GraphSearcher.search ------------------------ *)
\* the list a frame of search_local holds after a recursive call, had the
\* call been given the list itself and not a copy: what the call left
shared_with_callee(branches, callee_branches) == callee_branches

\* branches_ = deepcopy(branches): the list a frame of search_local holds
\* after the recursive call that was given the copy; callee_branches is the
\* copy as the call left it, another object
kept_by_deepcopy(branches, callee_branches) == branches

RECURSIVE search_local(_, _, _, _, _, _)
RECURSIVE for_branch(_, _, _, _, _, _, _)

\* search_local with the exploration ending at a completed path: outgoing
\* edges of the end node are not followed
search_local_stop_at_end(dst, node, path, branches, acc, depth) ==
    IF depth > RecursionLimit
    THEN [acc EXCEPT !.raised = TRUE, !.branches = branches]
    ELSE IF node = dst /\ Len(path) > 0
         THEN [acc EXCEPT !.paths = Append(@, path), !.branches = branches]
         ELSE for_branch(dst, SelectSeq(branches, LAMBDA x : x.src_node = node),
                         1, path, branches, acc, depth)

\* search_local without the test for a non-empty path
search_local_no_len_check(dst, node, path, branches, acc, depth) ==
    IF depth > RecursionLimit
    THEN [acc EXCEPT !.raised = TRUE, !.branches = branches]
    ELSE for_branch(dst, SelectSeq(branches, LAMBDA x : x.src_node = node), 1,
                    path, branches,
                    IF node = dst THEN [acc EXCEPT !.paths = Append(@, path)]
                    ELSE acc,
                    depth)

\* the body of search_local; acc = [paths, raised, branches] carries the
\* shared result list and whether RecursionError is propagating, and, when
\* the call has ended, the list branches as the call left it
search_local(dst, node, path, branches, acc, depth) ==
    IF depth > RecursionLimit
    THEN [acc EXCEPT !.raised = TRUE, !.branches = branches]
    ELSE
        LET acc1 == IF node = dst /\ Len(path) > 0
                    THEN [acc EXCEPT !.paths = Append(@, path)]
                    ELSE acc
            target_branches == SelectSeq(branches, LAMBDA x : x.src_node = node)
        IN for_branch(dst, target_branches, 1, path, branches, acc1, depth)

\* the for loop over target_branches, from its k-th element on
for_branch(dst, target_branches, k, path, branches, acc, depth) ==
    IF acc.raised \/ k > Len(target_branches)
    THEN [acc EXCEPT !.branches = branches]
    ELSE
        LET branch == target_branches[k] IN
        IF branch.arrived
        THEN for_branch(dst, target_branches, k + 1, path, branches, acc, depth)
        ELSE
            LET j == FirstEqual(branches, branch)
                branches_ == [branches EXCEPT ![j].arrived = TRUE]
                path_ == Append(path, branch)
                acc2 == search_local(dst, branches_[j].dst_node, path_,
                                     branches_, acc, depth + 1)
            IN for_branch(dst, target_branches, k + 1, path,
                          kept_by_deepcopy(branches, acc2.branches), acc2, depth)

\* GraphSearcher.search(src, dst) over the edge list branches
search(branches, src, dst) ==
    search_local(dst, src, <<>>, branches,
                 [paths |-> <<>>, raised |-> FALSE, branches |-> branches], 1)

(* ----------------------- CallbackPathSercher ---------------------------- *)
\* the loops that turn communications and variable passings into branches
RECURSIVE comm_branches(_, _, _)
comm_branches(comms, k, acc) ==
    IF k > Len(comms) THEN acc
    ELSE IF comms[k].callback_publish = None
         THEN comm_branches(comms, k + 1, acc)
         ELSE comm_branches(comms, k + 1,
                  Append(acc, GraphBranch(Len(acc) + 1,
                                          comms[k].callback_publish,
                                          comms[k].callback_subscription)))

RECURSIVE var_branches(_, _, _)
var_branches(vps, k, acc) ==
    IF k > Len(vps) THEN acc
    ELSE var_branches(vps, k + 1,
             Append(acc, GraphBranch(Len(acc) + 1,
                                     vps[k].callback_write,
                                     vps[k].callback_read)))

build_branches(comms, vps) == var_branches(vps, 1, comm_branches(comms, 1, <<>>))

\* to_callback = {callback.callback_unique_name: callback for ...}: the keys
\* of the dict, and the entry of a key (a later callback replaces an earlier
\* one with the same name)
to_callback_keys(callbacks) ==
    {callbacks[i].callback_unique_name : i \in 1..Len(callbacks)}

to_callback(callbacks, name) ==
    LET last == CHOOSE i \in 1..Len(callbacks) :
                    /\ callbacks[i].callback_unique_name = name
                    /\ \A k \in (i + 1)..Len(callbacks) :
                           callbacks[k].callback_unique_name # name
    IN callbacks[last]

\* _to_path with a lookup that skips the names the dict does not hold
_to_path_skip_unknown(callbacks, graph_path) ==
    LET names == SelectSeq(to_graph_nodes(graph_path),
                           LAMBDA n : n \in to_callback_keys(callbacks))
    IN [raised |-> FALSE,
        path |-> [i \in 1..Len(names) |-> to_callback(callbacks, names[i])]]

\* CallbackPathSercher._to_path: KeyError when a name is no key of the dict
_to_path(callbacks, graph_path) ==
    LET names == to_graph_nodes(graph_path) IN
    IF \E i \in 1..Len(names) : names[i] \notin to_callback_keys(callbacks)
    THEN [raised |-> TRUE, path |-> <<>>]
    ELSE [raised |-> FALSE,
          path |-> [i \in 1..Len(names) |-> to_callback(callbacks, names[i])]]

\* paths = [self._to_path(path) for path in graph_paths]
to_paths(callbacks, gpaths) ==
    LET each == [i \in 1..Len(gpaths) |-> _to_path(callbacks, gpaths[i])] IN
    IF \E i \in 1..Len(each) : each[i].raised
    THEN [status |-> "KeyError", paths |-> <<>>]
    ELSE [status |-> "returned", paths |-> [i \in 1..Len(each) |-> each[i].path]]

\* outcome of GraphSearcher.search as seen by its caller
search_outcome(found) ==
    IF found.raised THEN [status |-> "RecursionError", paths |-> <<>>]
    ELSE [status |-> "returned", paths |-> found.paths]

\* CallbackPathSercher.search as a function of the object's fields
callback_search(callbacks, comms, vps, start, end) ==
    LET branches == build_branches(comms, vps)
        found == search_outcome(search(branches, start, end))
    IN [branches |-> branches,
        graph_paths |-> found.paths,
        ret |-> IF found.status = "RecursionError" THEN found
                ELSE to_paths(callbacks, found.paths)]

(* ------------------------------ inputs ---------------------------------- *)
SeqsUpTo(S, n) == UNION {[1..k -> S] : k \in 0..n}

\* value under the name the body gives it: body(value), with value computed
\* once
With(value, body(_)) == CHOOSE out \in {body(x) : x \in {value}} : TRUE

Pairs == Nodes \X Nodes

\* edge lists a GraphSearcher can be constructed with
BranchLists ==
    {[i \in 1..Len(ps) |-> GraphBranch(i, ps[i][1], ps[i][2])] :
        ps \in SeqsUpTo(Pairs, MaxBranches)}

\* Communication and VariablePassing records over the callbacks in S
Communications(S) ==
    [callback_publish : S \cup {None}, callback_subscription : S]

VariablePassings(S) == [callback_write : S, callback_read : S]

\* a callback entity: its unique name and the node that owns it
Callback(n) == [callback_unique_name |-> n, node_name |-> "node_" \o n]

\* Util.flatten([node.callbacks for node in nodes]) for the sets of callbacks
\* the nodes may hold, in a fixed order
CallbackList(S) ==
    LET sel == SelectSeq(NodeOrder, LAMBDA n : n \in S)
    IN [i \in 1..Len(sel) |-> Callback(sel[i])]

NoCall == [status |-> "none", paths |-> <<>>]

\* no Lttng has been constructed: the class attribute has its default, the
\* attributes of the object do not exist
LttngIdle ==
    /\ load_dir = None
    /\ _dataframe = None
    /\ _records = None

\* no LttngInfo has been constructed: its fields hold nothing
InfoIdle ==
    /\ LttngIdle
    /\ data = <<>>
    /\ _source = <<>>
    /\ _formatted = <<>>
    /\ _binder_cache = {}
    /\ _timer_cb_cache = <<>>
    /\ _sub_cb_cache = <<>>
    /\ _pub_cache = <<>>
    /\ _cbg_cache = <<>>
    /\ _id_to_topic = <<>>
    /\ _sub_cb_cache_without_pub = <<>>
    /\ _timer_cb_cache_without_pub = <<>>
    /\ call = <<>>
    /\ result = <<>>
    /\ log = <<>>

(* ------------------------- GraphSearcher object ------------------------- *)
\* GraphSearcher.__init__(branches)
Init ==
    /\ InfoIdle
    /\ _branches \in BranchLists
    /\ _callbacks = <<>>
    /\ _communications = <<>>
    /\ _variable_passings = <<>>
    /\ src_node = None
    /\ dst_node = None
    /\ graph_paths = <<>>
    /\ ret = NoCall

\* a call of GraphSearcher.search(src, dst)
Search(src, dst) ==
    \E found \in {search(_branches, src, dst)} :
        /\ src_node' = src
        /\ dst_node' = dst
        /\ graph_paths' = (IF found.raised THEN <<>> ELSE found.paths)
        /\ ret' = search_outcome(found)
        /\ _branches' = found.branches
        /\ UNCHANGED <<_callbacks, _communications, _variable_passings>>
        /\ UNCHANGED <<infoVars, lttngVars>>

Next == \E src \in Nodes, dst \in Nodes : Search(src, dst)

Spec == Init /\ [][Next]_vars

(* ---------------------- CallbackPathSercher object ---------------------- *)
\* CallbackPathSercher.__init__(nodes, communications, variable_passings)
InitCallback ==
    /\ InfoIdle
    /\ _branches = <<>>
    /\ _callbacks \in {CallbackList(S) : S \in SUBSET Traced}
    /\ _communications \in SeqsUpTo(Communications(Traced), MaxRecords)
    /\ _variable_passings \in SeqsUpTo(VariablePassings(Traced), MaxRecords)
    /\ Len(_communications) + Len(_variable_passings) <= MaxRecords
    /\ src_node = None
    /\ dst_node = None
    /\ graph_paths = <<>>
    /\ ret = NoCall

\* a call of CallbackPathSercher.search(start, end)
CallbackSearch(start, end) ==
    \E out \in {callback_search(_callbacks, _communications,
                                 _variable_passings, start, end)} :
        /\ src_node' = start
        /\ dst_node' = end
        /\ _branches' = out.branches
        /\ graph_paths' = out.graph_paths
        /\ ret' = out.ret
        /\ UNCHANGED <<_callbacks, _communications, _variable_passings>>
        /\ UNCHANGED <<infoVars, lttngVars>>

NextCallback == \E start \in Nodes, end \in Nodes : CallbackSearch(start, end)

SpecCallback == InitCallback /\ [][NextCallback]_vars

(* ------------- CallbackPathSercher over a three-callback system --------- *)
\* CallbackPathSercher.__init__ for nodes that hold every callback, with up
\* to MaxRecords communications and up to MaxRecords variable passings among
\* them
InitPipeline ==
    /\ InfoIdle
    /\ _branches = <<>>
    /\ _callbacks = CallbackList(Nodes)
    /\ _communications \in SeqsUpTo(Communications(Nodes), MaxRecords)
    /\ _variable_passings \in SeqsUpTo(VariablePassings(Nodes), MaxRecords)
    /\ src_node = None
    /\ dst_node = None
    /\ graph_paths = <<>>
    /\ ret = NoCall

SpecPipeline == InitPipeline /\ [][NextCallback]_vars

(* ===================== infra/lttng/lttng_info.py ======================== *)
(* ---------------------- pandas, as far as it is used -------------------- *)
\* np.nan in a column of numbers (a value no handle, address or time takes)
\* and the text an f-string renders it as
NaN == -1
NaNStr == "nan"

\* the columns that hold text; every other column holds numbers
StrColumns ==
    {"name", "namespace", "node_name", "node_id", "topic_name", "symbol",
     "callback_id", "publisher_id", "executor_id", "callback_group_id",
     "group_type_name", "executor_type_name"}

nan_of(column) == IF column \in StrColumns THEN NaNStr ELSE NaN

\* f'{value}' for a number of a table
Str(value) == IF value = NaN THEN NaNStr ELSE ToString(value)

\* a DataFrame: its columns and its rows (a row maps each column to a cell),
\* or the exception the statement that should have produced it raised
DataFrame(columns, rows) == [raised |-> None, cols |-> columns, rows |-> rows]
Raise(exception) == [raised |-> exception, cols |-> {}, rows |-> <<>>]

\* pd.DataFrame(): a table the trace has no events for
NoTable == DataFrame({}, <<>>)

\* DataFrame.reset_index(): the index becomes a column.  The tables are kept
\* with their index as a column already; the frame without events gets the
\* column "index".
reset_index(df) == IF df.cols = {} THEN DataFrame({"index"}, <<>>) ELSE df

\* the elements of seq at the positions in I, in order
RECURSIVE SubSeqAt(_, _, _)
SubSeqAt(seq, I, k) ==
    IF k > Len(seq) THEN <<>>
    ELSE (IF k \in I THEN <<seq[k]>> ELSE <<>>) \o SubSeqAt(seq, I, k + 1)

\* Util.flatten
RECURSIVE flatten(_)
flatten(lists) ==
    IF lists = <<>> THEN <<>> ELSE Head(lists) \o flatten(Tail(lists))

\* the numbers of S in ascending order (the order groupby visits its keys)
RECURSIVE Sorted(_)
Sorted(S) ==
    IF S = {} THEN <<>>
    ELSE LET m == CHOOSE x \in S : \A y \in S : x <= y
         IN <<m>> \o Sorted(S \ {m})

\* DataFrame.drop(columns, axis=1) inside merge
drop(df, drop_columns) ==
    DataFrame(df.cols \ drop_columns,
              [i \in 1..Len(df.rows) |->
                  [c \in df.cols \ drop_columns |-> df.rows[i][c]]])

\* the row pd.merge makes of a left and a right row: a column of both sides
\* other than the key is kept twice, with the suffixes _x and _y
merged_row(l, r, join_key) ==
    LET both == (DOMAIN l \cap DOMAIN r) \ {join_key}
        columns == ((DOMAIN l \cup DOMAIN r) \ both)
                       \cup {c \o "_x" : c \in both} \cup {c \o "_y" : c \in both}
    IN [c \in columns |->
           IF c \in DOMAIN l \ both THEN l[c]
           ELSE IF c \in DOMAIN r \ both THEN r[c]
           ELSE IF \E b \in both : c = b \o "_x"
                THEN l[CHOOSE b \in both : c = b \o "_x"]
                ELSE r[CHOOSE b \in both : c = b \o "_y"]]

\* merge(left_df, right_df, join_key): an inner join after the volatile
\* columns are dropped; KeyError when a side lacks the key
merge(left_df, right_df, join_key) ==
    IF left_df.raised # None THEN left_df
    ELSE IF right_df.raised # None THEN right_df
    ELSE
        LET left_df_ == drop(left_df, {"timestamp", "tid", "rmw_handle"})
            right_df_ == drop(right_df, {"timestamp", "tid", "rmw_handle"})
        IN IF join_key \notin left_df_.cols \/ join_key \notin right_df_.cols
           THEN Raise("KeyError")
           ELSE
               LET both == (left_df_.cols \cap right_df_.cols) \ {join_key}
                   matches(l) ==
                       SubSeqAt(right_df_.rows,
                                {j \in 1..Len(right_df_.rows) :
                                    right_df_.rows[j][join_key] = l[join_key]}, 1)
                   joined(l) ==
                       [j \in 1..Len(matches(l)) |->
                           merged_row(l, matches(l)[j], join_key)]
               IN DataFrame(
                      ((left_df_.cols \cup right_df_.cols) \ both)
                          \cup {c \o "_x" : c \in both} \cup {c \o "_y" : c \in both},
                      flatten([i \in 1..Len(left_df_.rows) |->
                                  joined(left_df_.rows[i])]))

\* df[columns]
select(df, columns) ==
    IF df.raised # None THEN df
    ELSE IF ~(columns \subseteq df.cols) THEN Raise("KeyError")
    ELSE DataFrame(columns,
                   [i \in 1..Len(df.rows) |-> [c \in columns |-> df.rows[i][c]]])

\* concat(column_names, dfs): the frames that have every column, one below
\* the other; pd.concat of no frame raises ValueError
concat(column_names, dfs) ==
    IF \E i \in 1..Len(dfs) : dfs[i].raised # None
    THEN dfs[CHOOSE i \in 1..Len(dfs) :
                 /\ dfs[i].raised # None
                 /\ \A k \in 1..(i - 1) : dfs[k].raised = None]
    ELSE
        LET concat_targets ==
                SelectSeq(dfs, LAMBDA df : column_names \subseteq df.cols)
        IN IF concat_targets = <<>> THEN Raise("ValueError")
           ELSE DataFrame(column_names,
                    flatten([i \in 1..Len(concat_targets) |->
                                select(concat_targets[i], column_names).rows]))

\* DataFrame.rename(columns={old: new}); a frame without the column stays
rename(df, old, new) ==
    IF df.raised # None \/ old \notin df.cols THEN df
    ELSE DataFrame((df.cols \ {old}) \cup {new},
                   [i \in 1..Len(df.rows) |->
                       [c \in (df.cols \ {old}) \cup {new} |->
                           IF c = new THEN df.rows[i][old] ELSE df.rows[i][c]]])

\* DataFrame.drop_duplicates(): of equal rows the first stays
drop_duplicates(df) ==
    IF df.raised # None THEN df
    ELSE DataFrame(df.cols,
             SubSeqAt(df.rows,
                      {i \in 1..Len(df.rows) :
                          \A k \in 1..(i - 1) : df.rows[k] # df.rows[i]}, 1))

\* what a cell rule yields when the row lacks a column it reads (KeyError)
NoCell == "KeyError"

\* row[column] inside a cell rule
has(row, columns) == columns \subseteq DOMAIN row

(* --------------------------- DataFrameFormatted ------------------------- *)
\* DataFrameFormatted._ensure_columns
_ensure_columns(df, columns) ==
    IF df.raised # None THEN df
    ELSE DataFrame(df.cols \cup columns,
                   [i \in 1..Len(df.rows) |->
                       [c \in df.cols \cup columns |->
                           IF c \in df.cols THEN df.rows[i][c] ELSE nan_of(c)]])

\* DataFrameFormatted._add_column: cell_rule is applied to every row
_add_column(df, column_name, cell_rule(_)) ==
    IF df.raised # None THEN df
    ELSE IF \E i \in 1..Len(df.rows) : cell_rule(df.rows[i]) = NoCell
    THEN Raise("KeyError")
    ELSE DataFrame(df.cols \cup {column_name},
                   [i \in 1..Len(df.rows) |->
                       [c \in df.cols \cup {column_name} |->
                           IF c = column_name THEN cell_rule(df.rows[i])
                           ELSE df.rows[i][c]]])

\* the namespaces of the traces whose last character is '/'
EndsWithSlash == {"/", "/ns/"}

\* ns_and_node_name
ns_and_node_name(row) ==
    IF ~has(row, {"namespace", "name"}) THEN NoCell
    ELSE IF row["namespace"] \in EndsWithSlash
         THEN row["namespace"] \o row["name"]
         ELSE row["namespace"] \o "/" \o row["name"]

\* to_node_id with the handle left out of the id
to_node_id_without_handle(row) ==
    IF ~has(row, {"node_name", "node_handle"}) THEN NoCell
    ELSE row["node_name"]

\* to_node_id
to_node_id(row) ==
    IF ~has(row, {"node_name", "node_handle"}) THEN NoCell
    ELSE row["node_name"] \o "_" \o Str(row["node_handle"])

\* DataFrameFormatted._build_nodes_df
_build_nodes_df(data_) ==
    LET node_df0 == reset_index(data_.nodes)
        node_df1 == _add_column(node_df0, "node_name", ns_and_node_name)
        node_df2 == _add_column(node_df1, "node_id", to_node_id)
        node_df3 == IF node_df2.raised # None THEN node_df2
                    ELSE IF ~({"namespace", "name"} \subseteq node_df2.cols)
                         THEN Raise("KeyError")
                         ELSE drop(node_df2, {"namespace", "name"})
    IN select(node_df3, {"node_id", "node_handle", "node_name"})

\* to_publisher_id
to_publisher_id(row) ==
    IF ~has(row, {"publisher_handle"}) THEN NoCell
    ELSE "publisher_" \o Str(row["publisher_handle"])

\* DataFrameFormatted._build_publisher_df
_build_publisher_df(data_) ==
    LET columns == {"publisher_id", "publisher_handle", "node_handle",
                    "topic_name", "depth"}
        df0 == reset_index(data_.publishers)
        df1 == _add_column(df0, "publisher_id", to_publisher_id)
    IN select(_ensure_columns(df1, columns), columns)

\* to_executor_id
to_executor_id(row) ==
    IF ~has(row, {"executor_addr"}) THEN NoCell
    ELSE "executor_" \o Str(row["executor_addr"])

\* DataFrameFormatted._build_executor_df
_build_executor_df(data_) ==
    LET columns == {"executor_id", "executor_addr", "executor_type_name"}
        df0 == reset_index(data_.executors)
        df_ == reset_index(data_.executors_static)
        df1 == IF Len(df_.rows) > 0
               THEN concat({"executor_addr", "executor_type_name"}, <<df0, df_>>)
               ELSE df0
        df2 == _add_column(df1, "executor_id", to_executor_id)
    IN select(drop_duplicates(select(_ensure_columns(df2, columns), columns)),
              columns)

\* to_callback_group_id
to_callback_group_id(row) ==
    IF ~has(row, {"callback_group_addr"}) THEN NoCell
    ELSE "callback_group_" \o Str(row["callback_group_addr"])

\* _build_cbg_df up to drop_duplicates: the distinct rows of the callback
\* groups, those of the executors' own event first, then those registered
\* through an entities collector
cbg_distinct_rows(data_) ==
    LET columns == {"callback_group_id", "callback_group_addr",
                    "group_type_name", "executor_addr"}
        df0 == reset_index(data_.callback_groups)
        df_static == reset_index(data_.callback_groups_static)
        df_static_exec == reset_index(data_.executors_static)
        df1 == IF Len(df_static.rows) > 0 /\ Len(df_static_exec.rows) > 0
               THEN concat({"callback_group_addr", "group_type_name", "executor_addr"},
                           <<df0, merge(df_static, df_static_exec,
                                        "entities_collector_addr")>>)
               ELSE df0
        df2 == _add_column(df1, "callback_group_id", to_callback_group_id)
    IN drop_duplicates(select(_ensure_columns(df2, columns), columns))

\* the positions of the rows of a group of df.groupby('callback_group_addr')
cbg_group(df, addr) ==
    {i \in 1..Len(df.rows) : df.rows[i]["callback_group_addr"] = addr}

\* the keys of df.groupby(column), ascending; rows without a key form no group
group_keys(df, column) ==
    Sorted({df.rows[i][column] : i \in 1..Len(df.rows)} \ {NaN})

\* the logger.warn calls of _build_cbg_df: one per group of two rows or
\* more, with the executor addresses of the group
cbg_warnings(data_) ==
    LET df == cbg_distinct_rows(data_) IN
    IF df.raised # None THEN <<>>
    ELSE LET keys == SelectSeq(group_keys(df, "callback_group_addr"),
                               LAMBDA a : Cardinality(cbg_group(df, a)) >= 2)
         IN [k \in 1..Len(keys) |->
                [callback_group_addr |-> keys[k],
                 exec_addr |->
                     LET at == SubSeqAt(df.rows, cbg_group(df, keys[k]), 1)
                     IN [i \in 1..Len(at) |-> at[i]["executor_addr"]]]]

\* DataFrameFormatted._build_cbg_df: of the rows of a group all but the last
\* are dropped (executor_duplicated_indexes)
_build_cbg_df(data_) ==
    LET df == cbg_distinct_rows(data_) IN
    IF df.raised # None THEN df
    ELSE
        LET executor_duplicated_indexes ==
                UNION {LET group == cbg_group(df, addr)
                       IN IF Cardinality(group) >= 2
                          THEN group \ {CHOOSE i \in group : \A j \in group : j <= i}
                          ELSE {} :
                       addr \in {df.rows[i]["callback_group_addr"] :
                                    i \in 1..Len(df.rows)} \ {NaN}}
        IN DataFrame(df.cols,
               SubSeqAt(df.rows,
                        (1..Len(df.rows)) \ executor_duplicated_indexes, 1))

\* callback_id of _build_timer_callbacks_df
timer_callback_id(row) ==
    IF ~has(row, {"callback_object"}) THEN NoCell
    ELSE "timer_callback_" \o Str(row["callback_object"])

\* a builder without its try/except: the KeyError goes on to the caller
except_KeyError_uncaught(df, columns) == df

\* except KeyError: return pd.DataFrame(columns=columns)
except_KeyError(df, columns) ==
    IF df.raised = "KeyError" THEN DataFrame(columns, <<>>) ELSE df

\* DataFrameFormatted._build_timer_callbacks_df
_build_timer_callbacks_df(data_) ==
    LET columns == {"callback_id", "callback_object", "node_handle",
                    "timer_handle", "callback_group_addr", "period_ns", "symbol"}
        df0 == reset_index(data_.timers)
        df1 == merge(df0, reset_index(data_.timer_node_links), "timer_handle")
        callback_objects_df ==
            rename(reset_index(data_.callback_objects), "reference", "timer_handle")
        df2 == merge(df1, callback_objects_df, "timer_handle")
        df3 == merge(df2, data_.callback_symbols, "callback_object")
        df4 == merge(df3, reset_index(data_.callback_group_timer), "timer_handle")
        df5 == _add_column(df4, "callback_id", timer_callback_id)
        df6 == rename(df5, "period", "period_ns")
    IN except_KeyError(select(_ensure_columns(df6, columns), columns), columns)

\* the record _format_subscription_callback_object makes of the rows of one
\* subscription_handle
subscription_record(key, group) ==
    IF Len(group) = 1
    THEN [c \in {"subscription_handle", "callback_object"} |->
             IF c = "subscription_handle" THEN key
             ELSE group[1]["callback_object"]]
    ELSE IF Len(group) = 2
    THEN [c \in {"subscription_handle", "callback_object",
                 "callback_object_intra"} |->
             IF c = "subscription_handle" THEN key
             ELSE IF c = "callback_object" THEN group[2]["callback_object"]
             ELSE group[1]["callback_object"]]
    ELSE [c \in {"subscription_handle"} |-> key]

\* pd.DataFrame.from_dict(dicts): the columns are the keys of all the
\* records, a record without a key gets nan
from_dict(dicts) ==
    LET columns == UNION {DOMAIN dicts[i] : i \in 1..Len(dicts)}
    IN DataFrame(columns,
                 [i \in 1..Len(dicts) |->
                     [c \in columns |->
                         IF c \in DOMAIN dicts[i] THEN dicts[i][c] ELSE nan_of(c)]])

\* DataFrameFormatted._format_subscription_callback_object
_format_subscription_callback_object(data_) ==
    LET callback_objects_df ==
            rename(reset_index(data_.callback_objects), "reference", "subscription")
        sub_df == merge(data_.subscription_objects, callback_objects_df,
                        "subscription")
    IN IF sub_df.raised # None THEN sub_df
       ELSE IF "subscription_handle" \notin sub_df.cols THEN Raise("KeyError")
       ELSE
           LET keys == group_keys(sub_df, "subscription_handle")
               group(key) ==
                   SubSeqAt(sub_df.rows,
                            {i \in 1..Len(sub_df.rows) :
                                sub_df.rows[i]["subscription_handle"] = key}, 1)
           IN IF \E k \in 1..Len(keys) :
                     Len(group(keys[k])) \in {1, 2}
                         /\ "callback_object" \notin sub_df.cols
              THEN Raise("KeyError")
              ELSE from_dict([k \in 1..Len(keys) |->
                                 subscription_record(keys[k], group(keys[k]))])

\* callback_id of _build_sub_callbacks_df
subscription_callback_id(row) ==
    IF ~has(row, {"callback_object"}) THEN NoCell
    ELSE "subscription_callback_" \o Str(row["callback_object"])

\* DataFrameFormatted._build_sub_callbacks_df
_build_sub_callbacks_df(data_) ==
    LET columns == {"callback_id", "callback_object", "callback_object_intra",
                    "node_handle", "subscription_handle", "callback_group_addr",
                    "topic_name", "symbol", "depth"}
        df0 == reset_index(data_.subscriptions)
        df1 == merge(df0, _format_subscription_callback_object(data_),
                     "subscription_handle")
        df2 == merge(df1, reset_index(data_.callback_symbols), "callback_object")
        df3 == merge(df2, reset_index(data_.callback_group_subscription),
                     "subscription_handle")
        df4 == _add_column(df3, "callback_id", subscription_callback_id)
    IN except_KeyError(select(_ensure_columns(df4, columns), columns), columns)

\* DataFrameFormatted.__init__: the six tables in the order they are built;
\* the first exception a builder lets through ends the construction
DataFrameFormatted(data_) ==
    With(<<_build_executor_df(data_), _build_nodes_df(data_),
           _build_timer_callbacks_df(data_), _build_sub_callbacks_df(data_),
           _build_cbg_df(data_), _build_publisher_df(data_)>>,
         LAMBDA built :
             [raised |-> IF \A i \in 1..6 : built[i].raised = None THEN None
                         ELSE built[CHOOSE i \in 1..6 :
                                        /\ built[i].raised # None
                                        /\ \A j \in 1..(i - 1) :
                                               built[j].raised = None].raised,
              executor_df |-> built[1],
              nodes_df |-> built[2],
              timer_callbacks_df |-> built[3],
              subscription_callbacks_df |-> built[4],
              callback_groups_df |-> built[5],
              publishers_df |-> built[6]])

(* ------------------------------ values ---------------------------------- *)
\* an Optional value: None, or the value
Nothing(default) == [is_None |-> TRUE, value |-> default]
Some(value) == [is_None |-> FALSE, value |-> value]

\* a dict: its keys are the domain
EmptyDict == [k \in {} |-> <<>>]
dict_set(dict, key, value) ==
    [k \in DOMAIN dict \cup {key} |-> IF k = key THEN value ELSE dict[k]]

\* NodeValueLttng(node_name, node_id); a NodeValue of a bare name has the
\* node_id None
NodeValueLttng(node_name, node_id) == [node_name |-> node_name, node_id |-> node_id]

\* list.index(target): the first position whose element equals target; 0
\* stands for ValueError
index(list, target) ==
    IF \E i \in 1..Len(list) : list[i] = target
    THEN CHOOSE i \in 1..Len(list) :
             list[i] = target /\ \A k \in 1..(i - 1) : list[k] # target
    ELSE 0

(* ---------------------------- PublisherBinder --------------------------- *)
TARGET_RECORD_MAX_INDEX == 10

Min(a, b) == IF a <= b THEN a ELSE b

\* _get_publish_time taking the last record of the publisher
_get_publish_time_last(source, publisher_info) ==
    LET inter == SelectSeq(source.inter_proc_comm_records,
                     LAMBDA x : x.publisher_handle = publisher_info.publisher_handle)
        intra == SelectSeq(source.intra_proc_comm_records,
                     LAMBDA x : x.publisher_handle = publisher_info.publisher_handle)
    IN IF Len(inter) > 0 THEN Some(inter[Len(inter)].rclcpp_publish_timestamp)
       ELSE IF Len(intra) > 0
       THEN Some(intra[Len(intra)].rclcpp_intra_publish_timestamp)
       ELSE Nothing(0)

\* PublisherBinder._get_publish_time: the time of the record of the
\* publisher at index min(len - 1, TARGET_RECORD_MAX_INDEX), of the
\* inter-process records if there are any, else of the intra-process ones
_get_publish_time(source, publisher_info) ==
    LET inter == SelectSeq(source.inter_proc_comm_records,
                     LAMBDA x : x.publisher_handle = publisher_info.publisher_handle)
        intra == SelectSeq(source.intra_proc_comm_records,
                     LAMBDA x : x.publisher_handle = publisher_info.publisher_handle)
    IN IF Len(inter) > 0
       THEN Some(inter[Min(Len(inter) - 1, TARGET_RECORD_MAX_INDEX) + 1]
                     .rclcpp_publish_timestamp)
       ELSE IF Len(intra) > 0
       THEN Some(intra[Min(Len(intra) - 1, TARGET_RECORD_MAX_INDEX) + 1]
                     .rclcpp_intra_publish_timestamp)
       ELSE Nothing(0)

\* the loop of _is_consistent_inter and _is_consistent_intra over the
\* records of one callback object, from the k-th on: "True" at a record that
\* holds publish_time, "False" at one that begins after it, "None" when the
\* records are used up
RECURSIVE scan_records(_, _, _)

scan_records(cb_records, publish_time, k) ==
    IF k > Len(cb_records) THEN "None"
    ELSE LET data_ == cb_records[k] IN
         IF "callback_start_timestamp" \notin DOMAIN data_
            \/ "callback_end_timestamp" \notin DOMAIN data_
         THEN scan_records(cb_records, publish_time, k + 1)
         ELSE IF data_["callback_start_timestamp"] < publish_time
                 /\ publish_time < data_["callback_end_timestamp"]
         THEN "True"
         ELSE IF data_["callback_start_timestamp"] > publish_time
                 /\ data_["callback_end_timestamp"] > publish_time
         THEN "False"
         ELSE scan_records(cb_records, publish_time, k + 1)

\* the callback records of one callback object (None matches no record)
records_of(source, callback_object) ==
    IF callback_object.is_None THEN <<>>
    ELSE SelectSeq(source.callback_records,
                   LAMBDA x : x["callback_object"] = callback_object.value)

\* PublisherBinder._is_consistent_inter: "True", "False" or "None"
_is_consistent_inter(source, publish_time, callback_info) ==
    scan_records(records_of(source, Some(callback_info.callback_object)),
                 publish_time, 1)

\* _is_consistent_intra answering True when no record decides
_is_consistent_intra_default_true(source, publish_time, callback) ==
    scan_records(records_of(source, callback.callback_object_intra),
                 publish_time, 1) # "False"

\* PublisherBinder._is_consistent_intra
_is_consistent_intra(source, publish_time, callback) ==
    scan_records(records_of(source, callback.callback_object_intra),
                 publish_time, 1) = "True"

\* isinstance(callback_info, SubscriptionCallbackValueLttng)
is_subscription_callback(callback_info) ==
    "subscribe_topic_name" \in DOMAIN callback_info

\* PublisherBinder._is_consistent
_is_consistent(source, publisher_info, callback_info) ==
    LET publish_time == _get_publish_time(source, publisher_info) IN
    IF publish_time.is_None THEN FALSE
    ELSE IF _is_consistent_inter(source, publish_time.value, callback_info) = "True"
    THEN TRUE
    ELSE IF is_subscription_callback(callback_info)
    THEN _is_consistent_intra(source, publish_time.value, callback_info)
    ELSE FALSE

\* the bind operations: the first consistent (publisher, callback) pair in
\* the order of product(publishers, callbacks), <<>> when there is none
first_consistent(source, publishers, callbacks) ==
    LET pairs == flatten([p \in 1..Len(publishers) |->
                             [c \in 1..Len(callbacks) |->
                                 [publisher |-> publishers[p], cb |-> callbacks[c]]]])
        hits == SelectSeq(pairs,
                    LAMBDA x : _is_consistent(source, x.publisher, x.cb))
    IN IF hits = <<>> THEN <<>> ELSE <<hits[1]>>

(* ------------------------------- LttngInfo ------------------------------ *)
\* LttngInfo.get_nodes
get_nodes(formatted) ==
    [i \in 1..Len(formatted.nodes_df.rows) |->
        NodeValueLttng(formatted.nodes_df.rows[i]["node_name"],
                       formatted.nodes_df.rows[i]["node_id"])]

\* _get_nodes returning the first node of the name only
_get_nodes_first_only(formatted, node_name) ==
    LET named == SelectSeq(get_nodes(formatted), LAMBDA x : x.node_name = node_name)
    IN IF named = <<>> THEN <<>> ELSE <<named[1]>>

\* LttngInfo._get_nodes
_get_nodes(formatted, node_name) ==
    SelectSeq(get_nodes(formatted), LAMBDA x : x.node_name = node_name)

\* the dict a loader starts from: [] for every node of get_nodes()
rows_by_node(formatted, df, value(_)) ==
    [node_id \in {get_nodes(formatted)[i].node_id :
                     i \in 1..Len(get_nodes(formatted))} |->
        LET rows == SelectSeq(df.rows, LAMBDA row : row["node_id"] = node_id)
        IN [i \in 1..Len(rows) |-> value(rows[i])]]

TimerCallbackValueLttng(row) ==
    [callback_id |-> row["callback_id"],
     node_name |-> row["node_name"],
     node_id |-> row["node_id"],
     symbol |-> row["symbol"],
     period_ns |-> row["period_ns"],
     publish_topic_names |-> Nothing(<<>>),
     callback_object |-> row["callback_object"]]

\* LttngInfo._load_timer_cbs_without_pub
_load_timer_cbs_without_pub(formatted) ==
    rows_by_node(formatted,
                 merge(formatted.timer_callbacks_df, formatted.nodes_df, "node_handle"),
                 TimerCallbackValueLttng)

SubscriptionCallbackValueLttng(row) ==
    [callback_id |-> row["callback_id"],
     node_id |-> row["node_id"],
     node_name |-> row["node_name"],
     symbol |-> row["symbol"],
     subscribe_topic_name |-> row["topic_name"],
     publish_topic_names |-> Nothing(<<>>),
     callback_object |-> row["callback_object"],
     callback_object_intra |->
         IF row["callback_object_intra"] = NaN THEN Nothing(0)
         ELSE Some(row["callback_object_intra"])]

\* LttngInfo._load_sub_cbs_without_pub: the dict it returns
_load_sub_cbs_without_pub(formatted) ==
    rows_by_node(formatted,
                 merge(formatted.subscription_callbacks_df, formatted.nodes_df,
                       "node_handle"),
                 SubscriptionCallbackValueLttng)

\* LttngInfo._load_sub_cbs_without_pub: what it leaves in _id_to_topic (the
\* topic of the last row of a callback_id)
id_to_topic_loaded(formatted, id_to_topic) ==
    LET rows == merge(formatted.subscription_callbacks_df, formatted.nodes_df,
                      "node_handle").rows
        ids == {rows[i]["callback_id"] : i \in 1..Len(rows)}
    IN [id \in DOMAIN id_to_topic \cup ids |->
           IF id \in ids
           THEN rows[CHOOSE i \in 1..Len(rows) :
                         /\ rows[i]["callback_id"] = id
                         /\ \A k \in (i + 1)..Len(rows) : rows[k]["callback_id"] # id]
                    ["topic_name"]
           ELSE id_to_topic[id]]

\* LttngInfo.get_publishers_without_cb_bind
get_publishers_without_cb_bind(formatted, node_id) ==
    LET pub_df == merge(formatted.publishers_df, formatted.nodes_df, "node_handle")
        rows == SelectSeq(pub_df.rows, LAMBDA row : row["node_id"] = node_id)
    IN [i \in 1..Len(rows) |->
           [node_name |-> rows[i]["node_name"],
            topic_name |-> rows[i]["topic_name"],
            node_id |-> rows[i]["node_id"],
            callback_ids |-> Nothing(<<>>),
            publisher_handle |-> rows[i]["publisher_handle"]]]

\* LttngInfo._is_user_made_callback
_is_user_made_callback(id_to_topic, callback_id) ==
    LET is_subscription == callback_id \in DOMAIN id_to_topic IN
    IF ~is_subscription THEN TRUE
    ELSE id_to_topic[callback_id] \notin {"/clock", "/parameter_events"}

\* LttngInfo._get_callback_groups
_get_callback_groups(formatted, id_to_topic, node_id) ==
    LET column_names == {"callback_group_addr", "callback_id", "node_handle"}
        concat_df0 == concat(column_names,
                             <<formatted.timer_callbacks_df,
                               formatted.subscription_callbacks_df>>)
        concat_df1 == merge(concat_df0, formatted.nodes_df, "node_handle")
        concat_df == merge(concat_df1, formatted.callback_groups_df,
                           "callback_group_addr")
    IN IF concat_df.raised = "KeyError" THEN [raised |-> None, ret |-> <<>>]
       ELSE IF concat_df.raised # None
       THEN [raised |-> concat_df.raised, ret |-> <<>>]
       ELSE
           LET keys == group_keys(concat_df, "callback_group_addr")
               group_df(key) ==
                   SelectSeq(concat_df.rows,
                             LAMBDA row : row["callback_group_addr"] = key)
               mine == SelectSeq(keys,
                           LAMBDA key : group_df(key)[1]["node_id"] = node_id)
               value(key) ==
                   LET row == group_df(key)[1]
                       callback_ids ==
                           SelectSeq([i \in 1..Len(group_df(key)) |->
                                         group_df(key)[i]["callback_id"]],
                                     LAMBDA id : _is_user_made_callback(id_to_topic, id))
                   IN [callback_group_type_name |-> row["group_type_name"],
                       node_name |-> row["node_name"],
                       node_id |-> node_id,
                       callback_ids |-> callback_ids,
                       callback_group_id |-> row["callback_group_id"],
                       callback_group_addr |-> row["callback_group_addr"],
                       executor_addr |-> row["executor_addr"]]
           IN [raised |-> None, ret |-> [k \in 1..Len(mine) |-> value(mine[k])]]

\* LttngInfo.get_executors
get_executors(formatted) ==
    LET exec_df == merge(formatted.executor_df, formatted.callback_groups_df,
                         "executor_addr")
    IN IF exec_df.raised # None THEN [raised |-> exec_df.raised, ret |-> <<>>]
       ELSE
           LET keys == group_keys(exec_df, "executor_addr")
               group(key) ==
                   SelectSeq(exec_df.rows, LAMBDA row : row["executor_addr"] = key)
           IN [raised |-> None,
               ret |-> [k \in 1..Len(keys) |->
                           [executor_type_name |->
                                group(keys[k])[1]["executor_type_name"],
                            callback_group_ids |->
                                [i \in 1..Len(group(keys[k])) |->
                                    group(keys[k])[i]["callback_group_id"]]]]]

(* ------------------- LttngInfo: the cached accessors -------------------- *)
\* the fields of the LttngInfo a method assigns, the bind operations the
\* running call has invoked, and the exception that is propagating
Self ==
    [_binder_cache |-> _binder_cache,
     _timer_cb_cache |-> _timer_cb_cache,
     _sub_cb_cache |-> _sub_cb_cache,
     _pub_cache |-> _pub_cache,
     _cbg_cache |-> _cbg_cache,
     _id_to_topic |-> _id_to_topic,
     _sub_cb_cache_without_pub |-> _sub_cb_cache_without_pub,
     _timer_cb_cache_without_pub |-> _timer_cb_cache_without_pub,
     binds |-> <<>>,
     raised |-> None]

\* a method's effect: the object afterwards and the value returned
Return(self, value) == [self |-> self, ret |-> value]
RaiseIn(self, exception) == [self |-> [self EXCEPT !.raised = exception], ret |-> <<>>]

Accessors ==
    {"get_timer_callbacks", "get_subscription_callbacks", "get_publishers",
     "get_callback_groups"}

\* the cache an accessor keeps its results in
cache_of(accessor) ==
    CASE accessor = "get_timer_callbacks" -> "_timer_cb_cache"
      [] accessor = "get_subscription_callbacks" -> "_sub_cb_cache"
      [] accessor = "get_publishers" -> "_pub_cache"
      [] accessor = "get_callback_groups" -> "_cbg_cache"

\* can_bind answering True for every node
can_bind_always(node) == TRUE

\* PublisherBinder.can_bind: the method returns False in its first
\* statement; the inspection of the callback groups after it is never run
can_bind(node) == FALSE

\* LttngInfo._get_timer_cbs_without_pub
_get_timer_cbs_without_pub(self, node_id) ==
    With(IF self._timer_cb_cache_without_pub.is_None
         THEN [self EXCEPT !._timer_cb_cache_without_pub =
                               Some(_load_timer_cbs_without_pub(_formatted))]
         ELSE self,
         LAMBDA self1 :
             Return(self1,
                    IF node_id \notin DOMAIN self1._timer_cb_cache_without_pub.value
                    THEN <<>>
                    ELSE self1._timer_cb_cache_without_pub.value[node_id]))

\* LttngInfo._get_sub_cbs_without_pub
_get_sub_cbs_without_pub(self, node_id) ==
    With(IF self._sub_cb_cache_without_pub.is_None
         THEN [self EXCEPT
                  !._sub_cb_cache_without_pub =
                      Some(_load_sub_cbs_without_pub(_formatted)),
                  !._id_to_topic = id_to_topic_loaded(_formatted, @)]
         ELSE self,
         LAMBDA self1 :
             Return(self1,
                    IF node_id \notin DOMAIN self1._sub_cb_cache_without_pub.value
                    THEN <<>>
                    ELSE self1._sub_cb_cache_without_pub.value[node_id]))

\* _update_timer_cb_publish_topics / _update_sub_cb_publish_topics: the list
\* with the element equal to update_target given publish_topic_names;
\* ValueError when the list holds no such element
update_publish_topics(self, cbs, update_target, publish_topic_names) ==
    With(index(cbs, update_target),
         LAMBDA at :
             IF at = 0 THEN RaiseIn(self, "ValueError")
             ELSE Return(self, [cbs EXCEPT ![at].publish_topic_names =
                                               Some(publish_topic_names)]))

\* the loop over product(publishers, callbacks) of the bind operations: the
\* first consistent pair is bound and the loop left
bind_first(self, callback_list, publishers, callbacks) ==
    With(first_consistent(_source, publishers, callbacks),
         LAMBDA hit :
             IF hit = <<>> THEN Return(self, callback_list)
             ELSE update_publish_topics(
                      self, callback_list, hit[1].cb,
                      <<hit[1].publisher.topic_name>>
                          \o (IF hit[1].cb.publish_topic_names.is_None THEN <<>>
                              ELSE hit[1].cb.publish_topic_names.value)))

\* the list when no empty tuple is inserted
with_empty_tuple_skipped(callbacks) == callbacks

\* the list after "insert empty tuple": every callback has ()
with_empty_tuple(callbacks) ==
    [i \in 1..Len(callbacks) |->
        [callbacks[i] EXCEPT !.publish_topic_names = Some(<<>>)]]

\* PublisherBinder.bind_pub_topics_and_timer_cbs
bind_pub_topics_and_timer_cbs(self, node_name, callbacks) ==
    bind_first([self EXCEPT !.binds = Append(@, node_name)],
               with_empty_tuple(callbacks),
               SelectSeq(get_publishers_without_cb_bind(_formatted, node_name),
                         LAMBDA x : x.topic_name \notin {"/parameter_events", "/rosout"}),
               callbacks)

\* PublisherBinder.bind_pub_topics_and_sub_cbs
bind_pub_topics_and_sub_cbs(self, node_name, callbacks_info) ==
    With(with_empty_tuple(
             SelectSeq(callbacks_info,
                       LAMBDA x : x.subscribe_topic_name
                                      \notin {"/parameter_events", "/rosout", "/clock"})),
         LAMBDA callback_list :
             bind_first([self EXCEPT !.binds = Append(@, node_name)],
                        callback_list,
                        SelectSeq(get_publishers_without_cb_bind(_formatted, node_name),
                                  LAMBDA x : x.topic_name
                                      \notin {"/parameter_events", "/rosout", "/clock"}),
                        callback_list))

\* the binder of a node is made at the first use
with_binder(self, node_id) ==
    [self EXCEPT !._binder_cache = @ \cup {node_id}]

\* LttngInfo._get_timer_callbacks
_get_timer_callbacks(self, node) ==
    With(_get_timer_cbs_without_pub(self, node.node_id),
         LAMBDA timer_cbs :
             IF can_bind(node) /\ Len(timer_cbs.ret) > 0
             THEN bind_pub_topics_and_timer_cbs(
                      with_binder(timer_cbs.self, node.node_id), node.node_id,
                      timer_cbs.ret)
             ELSE Return(with_binder(timer_cbs.self, node.node_id), timer_cbs.ret))

\* LttngInfo._get_subscription_callback_values
_get_subscription_callback_values(self, node) ==
    With(_get_sub_cbs_without_pub(self, node.node_id),
         LAMBDA sub_cbs_info :
             IF can_bind(node)
             THEN bind_pub_topics_and_sub_cbs(
                      with_binder(sub_cbs_info.self, node.node_id), node.node_id,
                      sub_cbs_info.ret)
             ELSE Return(with_binder(sub_cbs_info.self, node.node_id),
                         sub_cbs_info.ret))

RECURSIVE get_local(_, _, _)
RECURSIVE for_nodes(_, _, _, _, _)

\* the accessor called with a NodeValue: a bare name stands for every node
\* of the name, a node_id for that node
get(accessor, self, node) ==
    IF node.node_id = None
    THEN for_nodes(accessor, self, _get_nodes(_formatted, node.node_name), 1, <<>>)
    ELSE get_local(accessor, self, NodeValueLttng(node.node_name, node.node_id))

\* _get_publishers once the callbacks of the node are known: every publisher
\* gets the ids of the callbacks that publish its topic; a callback without
\* publish_topic_names makes the search raise TypeError
publishers_with_callbacks(self, cbs, pubs_info) ==
    IF pubs_info # <<>> /\ \E k \in 1..Len(cbs) : cbs[k].publish_topic_names.is_None
    THEN RaiseIn(self, "TypeError")
    ELSE Return(self,
             [i \in 1..Len(pubs_info) |->
                 [pubs_info[i] EXCEPT !.callback_ids =
                      Some(LET cbs_pubs ==
                                   SelectSeq(cbs, LAMBDA x :
                                       \E k \in 1..Len(x.publish_topic_names.value) :
                                           x.publish_topic_names.value[k]
                                               = pubs_info[i].topic_name)
                           IN [k \in 1..Len(cbs_pubs) |-> cbs_pubs[k].callback_id])]])

\* LttngInfo._get_publishers
_get_publishers(self, node) ==
    IF ~can_bind(node)
    THEN Return(with_binder(self, node.node_id),
                get_publishers_without_cb_bind(_formatted, node.node_id))
    ELSE With(get("get_timer_callbacks", with_binder(self, node.node_id), node),
              LAMBDA timers :
                  IF timers.self.raised # None
                  THEN RaiseIn(timers.self, timers.self.raised)
                  ELSE With(get("get_subscription_callbacks", timers.self, node),
                            LAMBDA subs :
                                IF subs.self.raised # None
                                THEN RaiseIn(subs.self, subs.self.raised)
                                ELSE publishers_with_callbacks(
                                         subs.self, timers.ret \o subs.ret,
                                         get_publishers_without_cb_bind(
                                             _formatted, node.node_id))))

\* what an accessor computes for a node it has no cache entry for
uncached(accessor, self, node) ==
    CASE accessor = "get_timer_callbacks" -> _get_timer_callbacks(self, node)
      [] accessor = "get_subscription_callbacks" ->
             _get_subscription_callback_values(self, node)
      [] accessor = "get_publishers" -> _get_publishers(self, node)
      [] accessor = "get_callback_groups" ->
             With(_get_callback_groups(_formatted, self._id_to_topic, node.node_id),
                  LAMBDA cbgs :
                      IF cbgs.raised # None THEN RaiseIn(self, cbgs.raised)
                      ELSE Return(self, cbgs.ret))

\* the local function with the cache entry computed and stored at every call
get_local_recomputed(accessor, self, node) ==
    With(uncached(accessor, self, node),
         LAMBDA computed :
             IF computed.self.raised # None THEN computed
             ELSE Return([computed.self EXCEPT ![cache_of(accessor)] =
                              dict_set(@, node.node_id, computed.ret)],
                         computed.ret))

\* the local function of an accessor (_get_timer_callbacks_local,
\* get_cbg_local, ...): the cache entry of the node_id is computed and stored
\* when there is none, and returned
get_local(accessor, self, node) ==
    IF node.node_id \in DOMAIN self[cache_of(accessor)]
    THEN Return(self, self[cache_of(accessor)][node.node_id])
    ELSE With(uncached(accessor, self, node),
              LAMBDA computed :
                  IF computed.self.raised # None THEN computed
                  ELSE Return([computed.self EXCEPT ![cache_of(accessor)] =
                                   dict_set(@, node.node_id, computed.ret)],
                              computed.ret))

\* Util.flatten([local(node) for node in nodes]), from the k-th node on
for_nodes(accessor, self, nodes, k, lists) ==
    IF k > Len(nodes) THEN Return(self, flatten(lists))
    ELSE With(get_local(accessor, self, nodes[k]),
              LAMBDA one :
                  IF one.self.raised # None THEN one
                  ELSE for_nodes(accessor, one.self, nodes, k + 1,
                                 Append(lists, one.ret)))

(* ------------------------------ trace data ------------------------------ *)
\* a Ros2DataModel without events
EmptyData ==
    [nodes |-> NoTable, timers |-> NoTable, timer_node_links |-> NoTable,
     callback_objects |-> NoTable, callback_symbols |-> NoTable,
     callback_group_timer |-> NoTable, subscriptions |-> NoTable,
     subscription_objects |-> NoTable, callback_group_subscription |-> NoTable,
     publishers |-> NoTable, callback_groups |-> NoTable,
     callback_groups_static |-> NoTable, executors |-> NoTable,
     executors_static |-> NoTable]

\* the trace of a system of two nodes.  The first node ("/n") has one
\* mutually exclusive callback group with a timer, a subscription to
\* /chatter (with an intra-process callback object) and a subscription to
\* system_topic, and a publisher; the second node, of the name
\* second_name, has a timer in a mutually exclusive group and a subscription
\* in a reentrant one, registered through an entities collector, and a
\* publisher.
Trace(system_topic, second_name) ==
    [nodes |->
        DataFrame({"node_handle", "timestamp", "tid", "rmw_handle", "namespace", "name"},
            <<[node_handle |-> 1, timestamp |-> 1, tid |-> 7, rmw_handle |-> 3,
               namespace |-> "/", name |-> "n"],
              [node_handle |-> 2, timestamp |-> 2, tid |-> 7, rmw_handle |-> 4,
               namespace |-> "/", name |-> second_name]>>),
     timers |->
        DataFrame({"timer_handle", "timestamp", "period", "tid"},
            <<[timer_handle |-> 11, timestamp |-> 3, period |-> 100, tid |-> 7],
              [timer_handle |-> 21, timestamp |-> 4, period |-> 200, tid |-> 7]>>),
     timer_node_links |->
        DataFrame({"timer_handle", "timestamp", "node_handle"},
            <<[timer_handle |-> 11, timestamp |-> 5, node_handle |-> 1],
              [timer_handle |-> 21, timestamp |-> 6, node_handle |-> 2]>>),
     subscriptions |->
        DataFrame({"subscription_handle", "timestamp", "node_handle", "rmw_handle",
                   "topic_name", "depth"},
            <<[subscription_handle |-> 12, timestamp |-> 7, node_handle |-> 1,
               rmw_handle |-> 5, topic_name |-> "/chatter", depth |-> 10],
              [subscription_handle |-> 13, timestamp |-> 8, node_handle |-> 1,
               rmw_handle |-> 6, topic_name |-> system_topic, depth |-> 10],
              [subscription_handle |-> 22, timestamp |-> 9, node_handle |-> 2,
               rmw_handle |-> 7, topic_name |-> "/chatter", depth |-> 10]>>),
     subscription_objects |->
        DataFrame({"subscription", "timestamp", "subscription_handle"},
            <<[subscription |-> 111, timestamp |-> 10, subscription_handle |-> 12],
              [subscription |-> 112, timestamp |-> 11, subscription_handle |-> 12],
              [subscription |-> 113, timestamp |-> 12, subscription_handle |-> 13],
              [subscription |-> 122, timestamp |-> 13, subscription_handle |-> 22]>>),
     callback_objects |->
        DataFrame({"reference", "timestamp", "callback_object"},
            <<[reference |-> 11, timestamp |-> 14, callback_object |-> 1011],
              [reference |-> 21, timestamp |-> 15, callback_object |-> 1021],
              [reference |-> 111, timestamp |-> 16, callback_object |-> 1111],
              [reference |-> 112, timestamp |-> 17, callback_object |-> 1112],
              [reference |-> 113, timestamp |-> 18, callback_object |-> 1113],
              [reference |-> 122, timestamp |-> 19, callback_object |-> 1122]>>),
     callback_symbols |->
        DataFrame({"callback_object", "timestamp", "symbol"},
            <<[callback_object |-> 1011, timestamp |-> 20, symbol |-> "timer_1"],
              [callback_object |-> 1021, timestamp |-> 21, symbol |-> "timer_2"],
              [callback_object |-> 1111, timestamp |-> 22, symbol |-> "intra_1"],
              [callback_object |-> 1112, timestamp |-> 23, symbol |-> "sub_1"],
              [callback_object |-> 1113, timestamp |-> 24, symbol |-> "system_1"],
              [callback_object |-> 1122, timestamp |-> 25, symbol |-> "sub_2"]>>),
     callback_group_timer |->
        DataFrame({"timer_handle", "timestamp", "callback_group_addr"},
            <<[timer_handle |-> 11, timestamp |-> 26, callback_group_addr |-> 51],
              [timer_handle |-> 21, timestamp |-> 27, callback_group_addr |-> 61]>>),
     callback_group_subscription |->
        DataFrame({"subscription_handle", "timestamp", "callback_group_addr"},
            <<[subscription_handle |-> 12, timestamp |-> 28, callback_group_addr |-> 51],
              [subscription_handle |-> 13, timestamp |-> 29, callback_group_addr |-> 51],
              [subscription_handle |-> 22, timestamp |-> 30, callback_group_addr |-> 62]>>),
     publishers |->
        DataFrame({"publisher_handle", "timestamp", "node_handle", "rmw_handle",
                   "topic_name", "depth"},
            <<[publisher_handle |-> 15, timestamp |-> 31, node_handle |-> 1,
               rmw_handle |-> 8, topic_name |-> "/chatter", depth |-> 10],
              [publisher_handle |-> 25, timestamp |-> 32, node_handle |-> 2,
               rmw_handle |-> 9, topic_name |-> "/rosout", depth |-> 10]>>),
     callback_groups |->
        DataFrame({"callback_group_addr", "timestamp", "executor_addr",
                   "group_type_name"},
            <<[callback_group_addr |-> 51, timestamp |-> 33, executor_addr |-> 91,
               group_type_name |-> "mutually_exclusive"],
              [callback_group_addr |-> 61, timestamp |-> 34, executor_addr |-> 91,
               group_type_name |-> "mutually_exclusive"],
              [callback_group_addr |-> 51, timestamp |-> 35, executor_addr |-> 91,
               group_type_name |-> "mutually_exclusive"]>>),
     callback_groups_static |->
        DataFrame({"callback_group_addr", "timestamp", "entities_collector_addr",
                   "group_type_name"},
            <<[callback_group_addr |-> 62, timestamp |-> 36,
               entities_collector_addr |-> 71, group_type_name |-> "reentrant"]>>),
     executors |->
        DataFrame({"executor_addr", "timestamp", "executor_type_name"},
            <<[executor_addr |-> 91, timestamp |-> 37,
               executor_type_name |-> "single_threaded_executor"]>>),
     executors_static |->
        DataFrame({"executor_addr", "timestamp", "entities_collector_addr",
                   "executor_type_name"},
            <<[executor_addr |-> 92, timestamp |-> 38, entities_collector_addr |-> 71,
               executor_type_name |-> "static_single_threaded_executor"]>>)]

\* the execution records of that system: the timer of the first node ran
\* from 10 to 20 and from 30 to 40, its /chatter subscription from 50 to 60,
\* the publisher of the first node published at 15
TraceRecords ==
    [inter_proc_comm_records |->
        <<[publisher_handle |-> 15, rclcpp_publish_timestamp |-> 15]>>,
     intra_proc_comm_records |-> <<>>,
     callback_records |->
        <<[callback_object |-> 1011, callback_start_timestamp |-> 10,
           callback_end_timestamp |-> 20],
          [callback_object |-> 1011, callback_start_timestamp |-> 30,
           callback_end_timestamp |-> 40],
          [callback_object |-> 1112, callback_start_timestamp |-> 50,
           callback_end_timestamp |-> 60]>>]

(* --------------------------- LttngInfo object --------------------------- *)
\* no GraphSearcher and no CallbackPathSercher has been constructed
SearchIdle ==
    /\ _branches = <<>>
    /\ _callbacks = <<>>
    /\ _communications = <<>>
    /\ _variable_passings = <<>>
    /\ src_node = None
    /\ dst_node = None
    /\ graph_paths = <<>>
    /\ ret = NoCall

\* LttngInfo.__init__(data, records_source): the tables are built, the
\* caches are empty; an exception of a builder is the outcome of the call
Constructed(data_, source) ==
    /\ data = data_
    /\ _source = source
    /\ \E formatted \in {DataFrameFormatted(data_)} :
           /\ _formatted = formatted
           /\ result = [raised |-> formatted.raised, ret |-> <<>>]
    /\ _binder_cache = {}
    /\ _timer_cb_cache = EmptyDict
    /\ _sub_cb_cache = EmptyDict
    /\ _pub_cache = EmptyDict
    /\ _cbg_cache = EmptyDict
    /\ _id_to_topic = EmptyDict
    /\ _sub_cb_cache_without_pub = Nothing(EmptyDict)
    /\ _timer_cb_cache_without_pub = Nothing(EmptyDict)
    /\ call = [op |-> "__init__", node |-> NodeValueLttng(None, None), binds |-> <<>>]
    /\ log = cbg_warnings(data_)

\* the traces an LttngInfo is constructed from
InfoTraces ==
    {Trace(system_topic, second_name) :
        system_topic \in {"/clock", "/parameter_events", "/tf"},
        second_name \in {"n", "m"}}

InitInfo ==
    /\ LttngIdle
    /\ SearchIdle
    /\ \E data_ \in InfoTraces : Constructed(data_, TraceRecords)

\* the NodeValues the accessors are called with: the nodes of get_nodes(),
\* their bare names, and a name no node has
NodeArguments ==
    {get_nodes(_formatted)[i] : i \in 1..Len(get_nodes(_formatted))}
        \cup {NodeValueLttng(get_nodes(_formatted)[i].node_name, None) :
                 i \in 1..Len(get_nodes(_formatted))}
        \cup {NodeValueLttng("/unknown", None)}

\* the fields of the object after a method has run
Assigned(self) ==
    /\ _binder_cache' = self._binder_cache
    /\ _timer_cb_cache' = self._timer_cb_cache
    /\ _sub_cb_cache' = self._sub_cb_cache
    /\ _pub_cache' = self._pub_cache
    /\ _cbg_cache' = self._cbg_cache
    /\ _id_to_topic' = self._id_to_topic
    /\ _sub_cb_cache_without_pub' = self._sub_cb_cache_without_pub
    /\ _timer_cb_cache_without_pub' = self._timer_cb_cache_without_pub

\* a call of get_timer_callbacks, get_subscription_callbacks, get_publishers
\* or get_callback_groups
Accessor(accessor, node) ==
    /\ _formatted.raised = None
    /\ \E out \in {get(accessor, Self, node)} :
          /\ Assigned(out.self)
          /\ call' = [op |-> accessor, node |-> node, binds |-> out.self.binds]
          /\ result' = [raised |-> out.self.raised, ret |-> out.ret]
    /\ UNCHANGED <<data, _source, _formatted, log>>
    /\ UNCHANGED <<searchVars, lttngVars>>

\* a call of get_nodes
GetNodes ==
    /\ _formatted.raised = None
    /\ call' = [op |-> "get_nodes", node |-> NodeValueLttng(None, None), binds |-> <<>>]
    /\ result' = [raised |-> None, ret |-> get_nodes(_formatted)]
    /\ UNCHANGED <<data, _source, _formatted, _binder_cache, _timer_cb_cache,
                   _sub_cb_cache, _pub_cache, _cbg_cache, _id_to_topic,
                   _sub_cb_cache_without_pub, _timer_cb_cache_without_pub, log>>
    /\ UNCHANGED <<searchVars, lttngVars>>

\* a call of get_executors
GetExecutors ==
    /\ _formatted.raised = None
    /\ call' = [op |-> "get_executors", node |-> NodeValueLttng(None, None),
                binds |-> <<>>]
    /\ result' = get_executors(_formatted)
    /\ UNCHANGED <<data, _source, _formatted, _binder_cache, _timer_cb_cache,
                   _sub_cb_cache, _pub_cache, _cbg_cache, _id_to_topic,
                   _sub_cb_cache_without_pub, _timer_cb_cache_without_pub, log>>
    /\ UNCHANGED <<searchVars, lttngVars>>

NextInfo ==
    \/ \E accessor \in Accessors, node \in NodeArguments : Accessor(accessor, node)
    \/ GetNodes
    \/ GetExecutors

SpecInfo == InitInfo /\ [][NextInfo]_vars

(* ------------------- the builders, one at a time ------------------------ *)
NoInfoCall == [op |-> "none", node |-> NodeValueLttng(None, None), binds |-> <<>>]

\* a Ros2DataModel and a RecordsSource no object has been made of yet
Given(data_, source) ==
    /\ SearchIdle
    /\ data = data_
    /\ _source = source
    /\ _formatted = [raised |-> "unbuilt"]
    /\ _binder_cache = {}
    /\ _timer_cb_cache = EmptyDict
    /\ _sub_cb_cache = EmptyDict
    /\ _pub_cache = EmptyDict
    /\ _cbg_cache = EmptyDict
    /\ _id_to_topic = EmptyDict
    /\ _sub_cb_cache_without_pub = Nothing(EmptyDict)
    /\ _timer_cb_cache_without_pub = Nothing(EmptyDict)
    /\ call = NoInfoCall
    /\ result = [raised |-> None, ret |-> <<>>]
    /\ log = <<>>

\* what a step that calls no accessor leaves alone
UNCHANGED_caches ==
    UNCHANGED <<_binder_cache, _timer_cb_cache, _sub_cb_cache, _pub_cache,
                _cbg_cache, _id_to_topic, _sub_cb_cache_without_pub,
                _timer_cb_cache_without_pub>>

(* --------------------------- _build_cbg_df ------------------------------ *)
\* most rows of data.callback_groups
MaxCbgRows == 3

CbgAddrs == {51, 52}
ExecutorAddrs == {91, 92}
GroupTypes == {"mutually_exclusive", "reentrant"}

\* data.callback_groups: one row per observation of a callback group on an
\* executor, in the order observed (the timestamp is the position)
CallbackGroupTables ==
    {DataFrame({"callback_group_addr", "timestamp", "executor_addr", "group_type_name"},
               [i \in 1..Len(rows) |->
                   [callback_group_addr |-> rows[i][1], timestamp |-> i,
                    executor_addr |-> rows[i][2], group_type_name |-> rows[i][3]]]) :
        rows \in SeqsUpTo(CbgAddrs \X ExecutorAddrs \X GroupTypes, MaxCbgRows)}

\* the callback groups part of a Ros2DataModel: the observed rows and,
\* with static, a group registered with a static executor through its
\* entities collector
CbgData(table, static) ==
    IF static
    THEN [EmptyData EXCEPT
             !.callback_groups = table,
             !.callback_groups_static =
                 DataFrame({"callback_group_addr", "timestamp",
                            "entities_collector_addr", "group_type_name"},
                     <<[callback_group_addr |-> 52, timestamp |-> 36,
                        entities_collector_addr |-> 71,
                        group_type_name |-> "mutually_exclusive"]>>),
             !.executors_static =
                 DataFrame({"executor_addr", "timestamp", "entities_collector_addr",
                            "executor_type_name"},
                     <<[executor_addr |-> 93, timestamp |-> 38,
                        entities_collector_addr |-> 71,
                        executor_type_name |-> "static_single_threaded_executor"]>>)]
    ELSE [EmptyData EXCEPT !.callback_groups = table]

InitCbg ==
    /\ LttngIdle
    /\ \E table \in CallbackGroupTables, static \in BOOLEAN :
           Given(CbgData(table, static), <<>>)

\* DataFrameFormatted._build_cbg_df(data)
BuildCbg ==
    /\ call.op = "none"
    /\ \E df \in {_build_cbg_df(data)} :
          /\ _formatted' = [raised |-> df.raised, callback_groups_df |-> df]
          /\ result' = [raised |-> df.raised, ret |-> df.rows]
    /\ call' = [NoInfoCall EXCEPT !.op = "_build_cbg_df"]
    /\ log' = log \o cbg_warnings(data)
    /\ UNCHANGED <<data, _source>>
    /\ UNCHANGED_caches
    /\ UNCHANGED <<searchVars, lttngVars>>

NextCbg == BuildCbg

SpecCbg == InitCbg /\ [][NextCbg]_vars

(* --------------------------- _build_nodes_df ---------------------------- *)
\* most rows of data.nodes
MaxNodes == 2

NodeHandles == {1, 2, 11}
Namespaces == {"/", "/ns", "/ns/"}
NodeNames == {"n", "n_1"}

\* data.nodes: the node_handle is the index of the table, so no two rows
\* have the same
NodeTables ==
    {DataFrame({"node_handle", "timestamp", "namespace", "name"},
               [i \in 1..Len(rows) |->
                   [node_handle |-> rows[i][1], timestamp |-> i,
                    namespace |-> rows[i][2], name |-> rows[i][3]]]) :
        rows \in {r \in SeqsUpTo(NodeHandles \X Namespaces \X NodeNames, MaxNodes) :
                     \A i, j \in 1..Len(r) : r[i][1] = r[j][1] => i = j}}

InitNodes ==
    /\ LttngIdle
    /\ \E table \in NodeTables : Given([EmptyData EXCEPT !.nodes = table], <<>>)

\* DataFrameFormatted._build_nodes_df(data)
BuildNodes ==
    /\ call.op = "none"
    /\ \E df \in {_build_nodes_df(data)} :
          /\ _formatted' = [raised |-> df.raised, nodes_df |-> df]
          /\ result' = [raised |-> df.raised, ret |-> df.rows]
    /\ call' = [NoInfoCall EXCEPT !.op = "_build_nodes_df"]
    /\ UNCHANGED <<data, _source, log>>
    /\ UNCHANGED_caches
    /\ UNCHANGED <<searchVars, lttngVars>>

NextNodes ==
    \/ BuildNodes
    \/ GetNodes

SpecNodes == InitNodes /\ [][NextNodes]_vars

(* ----------------------------- _is_consistent -------------------------- *)
\* most callback records of the source
MaxIntervals == 3

\* (callback_start_timestamp, callback_end_timestamp) of a callback record
Intervals == {<<1, 2>>, <<1, 3>>, <<3, 4>>}

\* the callback objects: of a timer callback, of a subscription callback,
\* and of the intra-process side of that subscription callback
CallbackObjects == {1011, 1111, 1112}

\* a row of callback_records: a callback object with the start and the end
\* of one execution, or one that the end has not been merged into
CallbackRecords ==
    {[callback_object |-> obj, callback_start_timestamp |-> i[1],
      callback_end_timestamp |-> i[2]] : obj \in CallbackObjects, i \in Intervals}
        \cup {[callback_object |-> 1011, callback_start_timestamp |-> 3]}

\* the publish records of publisher 15: none, inter-process ones, or
\* intra-process ones only
PublishRecords ==
    {[inter |-> <<>>, intra |-> <<>>],
     [inter |-> <<[publisher_handle |-> 15, rclcpp_publish_timestamp |-> 1],
                  [publisher_handle |-> 15, rclcpp_publish_timestamp |-> 2]>>,
      intra |-> <<[publisher_handle |-> 15, rclcpp_intra_publish_timestamp |-> 5]>>],
     [inter |-> <<[publisher_handle |-> 25, rclcpp_publish_timestamp |-> 3]>>,
      intra |-> <<[publisher_handle |-> 15, rclcpp_intra_publish_timestamp |-> 2]>>],
     [inter |-> <<[publisher_handle |-> 15, rclcpp_publish_timestamp |-> 5]>>,
      intra |-> <<>>]}

BinderSources ==
    {[inter_proc_comm_records |-> p.inter,
      intra_proc_comm_records |-> p.intra,
      callback_records |-> records] :
        p \in PublishRecords, records \in SeqsUpTo(CallbackRecords, MaxIntervals)}

\* the publisher and the callbacks _is_consistent is asked about
BinderPublisher ==
    [node_name |-> "/n", topic_name |-> "/chatter", node_id |-> "/n_1",
     callback_ids |-> Nothing(<<>>), publisher_handle |-> 15]

BinderCallbacks ==
    {TimerCallbackValueLttng(
         [callback_id |-> "timer_callback_1011", node_name |-> "/n",
          node_id |-> "/n_1", symbol |-> "timer_cb", period_ns |-> 100,
          callback_object |-> 1011]),
     SubscriptionCallbackValueLttng(
         [callback_id |-> "subscription_callback_1111", node_name |-> "/n",
          node_id |-> "/n_1", symbol |-> "sub_cb", topic_name |-> "/chatter",
          callback_object |-> 1111, callback_object_intra |-> 1112]),
     SubscriptionCallbackValueLttng(
         [callback_id |-> "subscription_callback_1111", node_name |-> "/n",
          node_id |-> "/n_1", symbol |-> "sub_cb", topic_name |-> "/chatter",
          callback_object |-> 1111, callback_object_intra |-> NaN])}

InitBinder ==
    /\ LttngIdle
    /\ \E source \in BinderSources : Given(EmptyData, source)

\* PublisherBinder._is_consistent(publisher_info, callback_info)
IsConsistent(publisher_info, callback_info) ==
    /\ call' = [NoInfoCall EXCEPT !.op = "_is_consistent"]
                   @@ [publisher_info |-> publisher_info,
                       callback_info |-> callback_info]
    /\ result' = [raised |-> None,
                  ret |-> _is_consistent(_source, publisher_info, callback_info)]
    /\ UNCHANGED <<data, _source, _formatted, log>>
    /\ UNCHANGED_caches
    /\ UNCHANGED <<searchVars, lttngVars>>

NextBinder ==
    \E callback_info \in BinderCallbacks : IsConsistent(BinderPublisher, callback_info)

SpecBinder == InitBinder /\ [][NextBinder]_vars

\* the cache of an accessor
Cache(accessor) ==
    CASE accessor = "get_timer_callbacks" -> _timer_cb_cache
      [] accessor = "get_subscription_callbacks" -> _sub_cb_cache
      [] accessor = "get_publishers" -> _pub_cache
      [] accessor = "get_callback_groups" -> _cbg_cache

(* ------------------ traces without an optional table -------------------- *)
\* the trace every table of which has events
CompleteTrace == Trace("/clock", "m")

\* the tables a trace may have no events for: every table but the nodes'
OptionalTables == DOMAIN EmptyData \ {"nodes"}

\* the tables a trace lacks: one of them, or both the tables of the callback
\* groups, or both the tables of the executors
Defects ==
    {{t} : t \in OptionalTables}
        \cup {{"callback_groups", "callback_groups_static"},
              {"executors", "executors_static"}}

\* the Ros2DataModel of a trace without events for the tables: each is an
\* empty pd.DataFrame()
Without(data_, tables) ==
    [t \in DOMAIN data_ |-> IF t \in tables THEN NoTable ELSE data_[t]]

InitReconstruct ==
    /\ LttngIdle
    /\ SearchIdle
    /\ \E tables \in Defects :
          Constructed(Without(CompleteTrace, tables), TraceRecords)

\* most entries the four caches get
MaxReads == 3

\* a first call of an accessor for a node of get_nodes(), by node_id
Read(accessor, node) ==
    /\ Cardinality(DOMAIN _timer_cb_cache) + Cardinality(DOMAIN _sub_cb_cache)
           + Cardinality(DOMAIN _pub_cache) + Cardinality(DOMAIN _cbg_cache)
           < MaxReads
    /\ node.node_id \notin DOMAIN Cache(accessor)
    /\ Accessor(accessor, node)

NextReconstruct ==
    \/ \E accessor \in Accessors, i \in 1..Len(get_nodes(_formatted)) :
          Read(accessor, get_nodes(_formatted)[i])
    \/ GetExecutors

SpecReconstruct == InitReconstruct /\ [][NextReconstruct]_vars

(* ----------------------------- the bind passes -------------------------- *)
\* the trace of one node with three publishers: of /chatter, of /clock and
\* of /b
BindData ==
    [EmptyData EXCEPT
        !.nodes =
            DataFrame({"node_handle", "timestamp", "tid", "rmw_handle", "namespace",
                       "name"},
                <<[node_handle |-> 1, timestamp |-> 1, tid |-> 7, rmw_handle |-> 3,
                   namespace |-> "/", name |-> "n"]>>),
        !.publishers =
            DataFrame({"publisher_handle", "timestamp", "node_handle", "rmw_handle",
                       "topic_name", "depth"},
                <<[publisher_handle |-> 15, timestamp |-> 2, node_handle |-> 1,
                   rmw_handle |-> 8, topic_name |-> "/chatter", depth |-> 10],
                  [publisher_handle |-> 16, timestamp |-> 3, node_handle |-> 1,
                   rmw_handle |-> 9, topic_name |-> "/clock", depth |-> 10],
                  [publisher_handle |-> 17, timestamp |-> 4, node_handle |-> 1,
                   rmw_handle |-> 10, topic_name |-> "/b", depth |-> 10]>>)]

\* the node of that trace, as get_nodes() gives it
BindNode == NodeValueLttng("/n", "/n_1")

\* the timer callbacks of the node, as _load_timer_cbs_without_pub makes them
BindTimerCallbacks ==
    [i \in 1..2 |->
        TimerCallbackValueLttng(
            [callback_id |-> "timer_callback_" \o Str(1010 + i),
             node_name |-> BindNode.node_name, node_id |-> BindNode.node_id,
             symbol |-> "timer_cb", period_ns |-> 100 * i,
             callback_object |-> 1010 + i])]

\* the subscription callbacks of the node, as _load_sub_cbs_without_pub
\* makes them: of /chatter (with an intra-process callback object), of
\* /clock and of /b
BindSubscriptionCallbacks ==
    <<SubscriptionCallbackValueLttng(
          [callback_id |-> "subscription_callback_1111",
           node_name |-> BindNode.node_name, node_id |-> BindNode.node_id,
           symbol |-> "sub_cb", topic_name |-> "/chatter",
           callback_object |-> 1111, callback_object_intra |-> 1112]),
      SubscriptionCallbackValueLttng(
          [callback_id |-> "subscription_callback_1113",
           node_name |-> BindNode.node_name, node_id |-> BindNode.node_id,
           symbol |-> "clock_cb", topic_name |-> "/clock",
           callback_object |-> 1113, callback_object_intra |-> NaN]),
      SubscriptionCallbackValueLttng(
          [callback_id |-> "subscription_callback_1121",
           node_name |-> BindNode.node_name, node_id |-> BindNode.node_id,
           symbol |-> "sub_cb", topic_name |-> "/b",
           callback_object |-> 1121, callback_object_intra |-> NaN])>>

\* the callback objects that have execution records
BindObjects == <<1011, 1012, 1111, 1112, 1121>>

\* the execution of a callback object: none (<<>>), or one from start to end
BindExecutions == {<<>>, <<1, 3>>, <<4, 6>>}

\* when a publisher published: never (0), or once at that time
BindPublishTimes == {0, 2, 5}

\* the records sources: publisher 16 published at 2, the publishers 15 and
\* 17 at the times at15 and at17, the i-th callback object ran during
\* executions[i]
BindSource(at15, at17, executions) ==
    [inter_proc_comm_records |->
        SelectSeq(<<[publisher_handle |-> 15, rclcpp_publish_timestamp |-> at15],
                    [publisher_handle |-> 16, rclcpp_publish_timestamp |-> 2],
                    [publisher_handle |-> 17, rclcpp_publish_timestamp |-> at17]>>,
                  LAMBDA x : x.rclcpp_publish_timestamp # 0),
     intra_proc_comm_records |-> <<>>,
     callback_records |->
        flatten([i \in 1..Len(BindObjects) |->
                    IF executions[i] = <<>> THEN <<>>
                    ELSE <<[callback_object |-> BindObjects[i],
                            callback_start_timestamp |-> executions[i][1],
                            callback_end_timestamp |-> executions[i][2]]>>])]

InitBind ==
    /\ LttngIdle
    /\ SearchIdle
    /\ \E at15 \in BindPublishTimes, at17 \in BindPublishTimes,
          executions \in [1..Len(BindObjects) -> BindExecutions] :
           Constructed(BindData, BindSource(at15, at17, executions))

\* a call of bind_pub_topics_and_timer_cbs or of bind_pub_topics_and_sub_cbs
\* of the binder of the node, with the callbacks of the node
BindPass(op, callbacks, out) ==
    /\ call' = [NoInfoCall EXCEPT !.op = op] @@ [callbacks |-> callbacks]
    /\ result' = [raised |-> out.self.raised, ret |-> out.ret]
    /\ UNCHANGED <<data, _source, _formatted, log>>
    /\ UNCHANGED_caches
    /\ UNCHANGED <<searchVars, lttngVars>>

BindTimerCbs ==
    \E callbacks \in {BindTimerCallbacks} :
        BindPass("bind_pub_topics_and_timer_cbs", callbacks,
                 bind_pub_topics_and_timer_cbs(Self, BindNode.node_id, callbacks))

BindSubCbs ==
    \E callbacks_info \in {BindSubscriptionCallbacks} :
        BindPass("bind_pub_topics_and_sub_cbs", callbacks_info,
                 bind_pub_topics_and_sub_cbs(Self, BindNode.node_id,
                                             callbacks_info))

NextBind == BindTimerCbs \/ BindSubCbs

SpecBind == InitBind /\ [][NextBind]_vars

(* --------------------------- _get_publish_time -------------------------- *)
\* most publish records of a publisher in one stream
MaxPublishRecords == 12

\* a stream of publish records: n records of publisher 15 with the column
\* stamp_key, the i-th stamped base + i when ascending and base - i
\* otherwise, each followed by a record of publisher 25 when mixed
PublishStream(n, stamp_key, base, ascending, mixed) ==
    flatten([i \in 1..n |->
        <<[publisher_handle |-> 15] @@
          (stamp_key :> (IF ascending THEN base + i ELSE base - i))>>
        \o (IF mixed
            THEN <<[publisher_handle |-> 25] @@ (stamp_key :> base + 50 + i)>>
            ELSE <<>>)])

InitPublishTime ==
    /\ LttngIdle
    /\ \E inter \in 0..MaxPublishRecords, intra \in 0..MaxPublishRecords,
          ascending \in BOOLEAN, mixed \in BOOLEAN :
           Given(EmptyData,
                 [inter_proc_comm_records |->
                      PublishStream(inter, "rclcpp_publish_timestamp", 100,
                                    ascending, mixed),
                  intra_proc_comm_records |->
                      PublishStream(intra, "rclcpp_intra_publish_timestamp", 200,
                                    ascending, mixed),
                  callback_records |-> <<>>])

\* PublisherBinder._get_publish_time(publisher_info)
GetPublishTime(publisher_info) ==
    /\ call' = [NoInfoCall EXCEPT !.op = "_get_publish_time"]
                   @@ [publisher_info |-> publisher_info]
    /\ result' = [raised |-> None,
                  ret |-> _get_publish_time(_source, publisher_info)]
    /\ UNCHANGED <<data, _source, _formatted, log>>
    /\ UNCHANGED_caches
    /\ UNCHANGED <<searchVars, lttngVars>>

NextPublishTime ==
    \E publisher_handle \in {15, 25, 35} :
        GetPublishTime([BinderPublisher EXCEPT !.publisher_handle = publisher_handle])

SpecPublishTime == InitPublishTime /\ [][NextPublishTime]_vars

(* ------------------------------- Lttng ---------------------------------- *)
\* Records.drop_columns(columns): the rows without these columns
drop_columns(records, columns) ==
    [i \in 1..Len(records) |->
        [c \in DOMAIN records[i] \ columns |-> records[i][c]]]

\* Records.rename_columns({old: new}): the rows with the column old named new
rename_columns(records, old, new) ==
    [i \in 1..Len(records) |->
        [c \in (DOMAIN records[i] \ {old})
                  \cup (IF old \in DOMAIN records[i] THEN {new} ELSE {}) |->
            IF c = new THEN records[i][old] ELSE records[i][c]]]

\* RecordsFormatter.get_callback_records(callback): the executions of the
\* callback, rows of callback_object, callback_start_timestamp and
\* callback_end_timestamp, as a new Records object
get_callback_records(records, callback) ==
    SelectSeq(records, LAMBDA x : x["callback_object"] = callback.callback_object)

\* merge_sequencial(left_records, right_records, left_stamp_key,
\* right_stamp_key, join_key=None, how): every left row joined with the
\* right row of the smallest right stamp that is not earlier than the left
\* stamp (the first such row when several have that stamp); with how =
\* "left" a left row that has no such right row is kept as it is, otherwise
\* it is left out
merge_sequencial(left_records, right_records, left_stamp_key, right_stamp_key, how) ==
    flatten([i \in 1..Len(left_records) |->
        LET later == {k \in 1..Len(right_records) :
                         right_records[k][right_stamp_key]
                             >= left_records[i][left_stamp_key]}
        IN IF later = {}
           THEN (IF how = "left" THEN <<left_records[i]>> ELSE <<>>)
           ELSE <<left_records[i] @@
                  right_records[
                      CHOOSE k \in later :
                          \A m \in later :
                              \/ right_records[k][right_stamp_key]
                                     < right_records[m][right_stamp_key]
                              \/ /\ right_records[k][right_stamp_key]
                                        = right_records[m][right_stamp_key]
                                 /\ k <= m]>>])

\* Records.sort(key): the rows in ascending order of the column key, rows of
\* equal key in the order they had
RECURSIVE sort(_, _)

sort(records, key) ==
    IF records = <<>> THEN <<>>
    ELSE LET first == CHOOSE i \in 1..Len(records) :
                          \A k \in 1..Len(records) :
                              \/ records[i][key] < records[k][key]
                              \/ records[i][key] = records[k][key] /\ i <= k
         IN <<records[first]>>
                \o sort(SubSeqAt(records, (1..Len(records)) \ {first}, 1), key)

\* compose_variable_passing_records without the sort of the merged records
compose_variable_passing_records_unsorted(records, write_callback_impl, read_callback_impl) ==
    drop_columns(
        merge_sequencial(
            drop_columns(
                rename_columns(get_callback_records(records, write_callback_impl),
                               "callback_object", "write_callback_object"),
                {"callback_start_timestamp"}),
            rename_columns(
                drop_columns(get_callback_records(records, read_callback_impl),
                             {"callback_end_timestamp"}),
                "callback_object", "read_callback_object"),
            "callback_end_timestamp", "callback_start_timestamp", "left"),
        {"read_callback_object", "write_callback_object"})

\* compose_variable_passing_records with the write records on the right
\* and the read records on the left
compose_variable_passing_records_swapped(records, write_callback_impl, read_callback_impl) ==
    drop_columns(
        sort(merge_sequencial(
                 rename_columns(
                     drop_columns(get_callback_records(records, read_callback_impl),
                                  {"callback_end_timestamp"}),
                     "callback_object", "read_callback_object"),
                 drop_columns(
                     rename_columns(get_callback_records(records, write_callback_impl),
                                    "callback_object", "write_callback_object"),
                     {"callback_start_timestamp"}),
                 "callback_start_timestamp", "callback_end_timestamp", "left"),
             "callback_end_timestamp"),
        {"read_callback_object", "write_callback_object"})

\* Lttng.compose_variable_passing_records, given the callbacks with their
\* runtime information (what _to_local_callback makes of the arguments)
compose_variable_passing_records(records, write_callback_impl, read_callback_impl) ==
    drop_columns(
        sort(merge_sequencial(
                 drop_columns(
                     rename_columns(get_callback_records(records, write_callback_impl),
                                    "callback_object", "write_callback_object"),
                     {"callback_start_timestamp"}),
                 rename_columns(
                     drop_columns(get_callback_records(records, read_callback_impl),
                                  {"callback_end_timestamp"}),
                     "callback_object", "read_callback_object"),
                 "callback_end_timestamp", "callback_start_timestamp", "left"),
             "callback_end_timestamp"),
        {"read_callback_object", "write_callback_object"})

\* the directories a trace is loaded from
TraceDirs == {"trace_a", "trace_b", "trace_c"}

\* where a construction that reads the trace can fail: nowhere, in
\* load_file, or in RecordsFormatter after self._dataframe was assigned
Failures == {"none", "load_file", "RecordsFormatter"}

\* no Lttng has been constructed in the process
InitLttng ==
    /\ LttngIdle
    /\ Given(EmptyData, <<>>)

\* Lttng(trace_dir, force_conversion): __init__ on the one object of the
\* class.  The DataFrameFormatter and the RecordsFormatter stand for the
\* directory whose events they were made of.
Construct(trace_dir, force_conversion, failure) ==
    /\ call' = [NoInfoCall EXCEPT !.op = "Lttng.__init__"]
                   @@ [trace_dir |-> trace_dir, force_conversion |-> force_conversion]
    /\ IF load_dir = trace_dir
       THEN /\ result' = [raised |-> None, ret |-> "returned early"]
            /\ UNCHANGED lttngVars
       ELSE /\ load_dir' = trace_dir
            /\ _dataframe' = (IF failure = "load_file" THEN _dataframe ELSE trace_dir)
            /\ _records' = (IF failure = "none" THEN trace_dir ELSE _records)
            /\ result' = [raised |-> IF failure = "none" THEN None ELSE "Exception",
                          ret |-> "loaded"]
    /\ UNCHANGED <<data, _source, _formatted, log>>
    /\ UNCHANGED_caches
    /\ UNCHANGED searchVars

NextLttng ==
    \E trace_dir \in TraceDirs, force_conversion \in BOOLEAN, failure \in Failures :
        Construct(trace_dir, force_conversion, failure)

SpecLttng == InitLttng /\ [][NextLttng]_vars

\* most callback records of a trace
MaxExecutions == 3

\* the callbacks with their runtime information
RuntimeCallbacks == {[callback_object |-> 1011], [callback_object |-> 1111]}

\* (callback_start_timestamp, callback_end_timestamp) of an execution
Executions == {<<1, 2>>, <<2, 3>>, <<3, 5>>, <<4, 6>>}

\* the callback records a trace can hold, in any order
ExecutionRows ==
    {[callback_object |-> cb.callback_object, callback_start_timestamp |-> e[1],
      callback_end_timestamp |-> e[2]] : cb \in RuntimeCallbacks, e \in Executions}

\* an Lttng whose records formatter holds the callback records of a trace
InitCompose ==
    /\ SearchIdle
    /\ Given(EmptyData, <<>>)
    /\ load_dir = "trace"
    /\ _dataframe = "trace"
    /\ _records \in SeqsUpTo(ExecutionRows, MaxExecutions)

\* a call of compose_variable_passing_records(write_callback, read_callback)
ComposeVariablePassingRecords(write_callback, read_callback) ==
    /\ call' = [NoInfoCall EXCEPT !.op = "compose_variable_passing_records"]
                   @@ [write_callback |-> write_callback,
                       read_callback |-> read_callback]
    /\ result' = [raised |-> None,
                  ret |-> compose_variable_passing_records(
                              _records, write_callback, read_callback)]
    /\ UNCHANGED <<data, _source, _formatted, log>>
    /\ UNCHANGED_caches
    /\ UNCHANGED <<searchVars, lttngVars>>

NextCompose ==
    \E write_callback \in RuntimeCallbacks, read_callback \in RuntimeCallbacks :
        ComposeVariablePassingRecords(write_callback, read_callback)

SpecCompose == InitCompose /\ [][NextCompose]_vars

(* ------------------- vocabulary of the properties ----------------------- *)
Called == ret.status # "none"
Returned == ret.status = "returned"

\* the edge instances a graph path runs over, by position in the edge list
Ids(path) == [k \in 1..Len(path) |-> path[k].id]

\* no two edges of the list have the same (source, destination) pair
DistinctPairs(branches) ==
    \A i, j \in 1..Len(branches) :
        BranchEq(branches[i], branches[j]) => i = j

\* the directed walks of length >= 1 from s to e that use no edge of the
\* list twice, as sequences of edge positions
Trails(branches, s, e) ==
    LET n == Len(branches) IN
    {p \in UNION {[1..k -> 1..n] : k \in 1..n} :
        /\ \A i, j \in 1..Len(p) : p[i] = p[j] => i = j
        /\ branches[p[1]].src_node = s
        /\ branches[p[Len(p)]].dst_node = e
        /\ \A i \in 1..(Len(p) - 1) :
               branches[p[i]].dst_node = branches[p[i + 1]].src_node}

\* the names reachable from the names in S along the edges of the list
RECURSIVE ReachFrom(_, _)
ReachFrom(branches, S) ==
    LET T == S \cup {branches[i].dst_node :
                        i \in {j \in 1..Len(branches) : branches[j].src_node \in S}}
    IN IF T = S THEN S ELSE ReachFrom(branches, T)

\* some directed walk of length >= 1 leads from s to e
HasWalk(branches, s, e) ==
    \E i \in 1..Len(branches) :
        /\ branches[i].src_node = s
        /\ e \in ReachFrom(branches, {branches[i].dst_node})

(* ------------------------------ C1 -------------------------------------- *)
\* C1: for every finite edge list (cycles, self-loops and several edges with
\* the same (source, destination) pair included) and every start and end,
\* search terminates and returns a list of paths: no call ends in unbounded
\* recursion.
C1_SearchTerminates == Called => Returned

(* ------------------------------ C3 -------------------------------------- *)
\* C3: in every returned path no edge instance of the searcher's edge list
\* occurs more than once: the number of distinct edges of the path equals
\* its length, also with several edges of the same (source, destination).
C3_NoEdgeTwice ==
    \A i \in 1..Len(graph_paths) :
        Cardinality({graph_paths[i][k].id : k \in 1..Len(graph_paths[i])})
            = Len(graph_paths[i])

C7_CycleGivesTwoPaths ==
    \A a, b \in Nodes :
        ( /\ Returned
          /\ a # b
          /\ src_node = a /\ dst_node = a
          /\ \E i, j \in 1..Len(_branches) :
                /\ _branches[i].src_node = a /\ _branches[i].dst_node = b
                /\ _branches[j].src_node = b /\ _branches[j].dst_node = a )
        => /\ Len(ret.paths) >= 2
           /\ \E i \in 1..Len(ret.paths) :
                /\ Len(ret.paths[i]) = 2
                /\ ret.paths[i][1].dst_node = b
                /\ ret.paths[i][2].src_node = b

(* ------------------------------ C2 -------------------------------------- *)
\* C2: every path search(start, end) returns begins with an edge whose
\* source is start and ends with an edge whose destination is end; after
\* the translation to callbacks the first callback's unique name is the
\* start name and the last callback's unique name is the end name.
C2_Endpoints ==
    /\ \A i \in 1..Len(graph_paths) :
          /\ Len(graph_paths[i]) >= 1
          /\ graph_paths[i][1].src_node = src_node
          /\ graph_paths[i][Len(graph_paths[i])].dst_node = dst_node
    /\ Returned =>
          \A i \in 1..Len(ret.paths) :
              /\ Len(ret.paths[i]) >= 1
              /\ ret.paths[i][1].callback_unique_name = src_node
              /\ ret.paths[i][Len(ret.paths[i])].callback_unique_name = dst_node

\* a query between two different callbacks that returned a translated path
\* over two edges
C2_Witness ==
    /\ Returned
    /\ src_node # dst_node
    /\ \E i \in 1..Len(ret.paths) :
          /\ Len(ret.paths[i]) = 3
          /\ ret.paths[i][2].callback_unique_name # src_node

(* ------------------------------ C6 -------------------------------------- *)
\* the edges the records of a CallbackPathSercher stand for: those of the
\* communications with a publisher-side callback, then the variable passings
ExpectedBranches(comms, vps) ==
    LET resolved == SelectSeq(comms, LAMBDA c : c.callback_publish # None)
        n == Len(resolved)
    IN [i \in 1..(n + Len(vps)) |->
           IF i <= n
           THEN GraphBranch(i, resolved[i].callback_publish,
                            resolved[i].callback_subscription)
           ELSE GraphBranch(i, vps[i - n].callback_write,
                            vps[i - n].callback_read)]

\* C6: when no directed walk connects start to end (a name that occurs in
\* no edge included), CallbackPathSercher.search returns the empty list and
\* raises no error.
C6_NoWalkGivesEmptyList ==
    ( /\ Called
      /\ ~HasWalk(ExpectedBranches(_communications, _variable_passings),
                  src_node, dst_node) )
    => (Returned /\ ret.paths = <<>>)

(* ------------------------------ C8 -------------------------------------- *)
\* C8: for the cyclic two-node pipeline whose graph is the two edges
\* pipe1 -> pipe2 and pipe2 -> pipe1 (pipe1's callback is "A", pipe2's is
\* "B"), the search from pipe1's callback to itself returns exactly 2 paths.
C8_CyclicPipelineTwoPaths ==
    ( /\ Called
      /\ _communications =
            <<[callback_publish |-> "A", callback_subscription |-> "B"],
              [callback_publish |-> "B", callback_subscription |-> "A"]>>
      /\ _variable_passings = <<>>
      /\ {"A", "B"} \subseteq to_callback_keys(_callbacks)
      /\ src_node = "A" /\ dst_node = "A" )
    => (Returned /\ Len(ret.paths) = 2)

(* ------------------------------ C9 -------------------------------------- *)
\* C9: the graph built by CallbackPathSercher.search has one edge per
\* communication with a resolved publisher-side callback and one per
\* variable passing, none for a communication whose publisher-side callback
\* is None; when the only connection from start to end runs through such a
\* communication the search returns 0 paths, and exactly 1 path once the
\* publisher-side callback of that communication is supplied.
C9_UnresolvedPublisherSkipped ==
    Called =>
        /\ _branches = ExpectedBranches(_communications, _variable_passings)
        /\ \A i \in 1..Len(_communications) : \A cb \in Nodes :
              LET supplied == [_communications EXCEPT ![i].callback_publish = cb]
                  with == callback_search(_callbacks, supplied,
                                          _variable_passings, src_node, dst_node)
              IN ( /\ src_node # dst_node
                   /\ _communications[i].callback_publish = None
                   /\ ~HasWalk(ExpectedBranches(_communications, _variable_passings),
                               src_node, dst_node)
                   /\ Cardinality(Trails(ExpectedBranches(supplied, _variable_passings),
                                         src_node, dst_node)) = 1 )
                 => /\ Returned
                    /\ Len(ret.paths) = 0
                    /\ with.ret.status # "RecursionError"
                    /\ Len(with.graph_paths) = 1

(* ------------------------------ C10 ------------------------------------- *)
\* C10: if a graph path found by the search visits a callback name that is
\* not in the callback set, CallbackPathSercher.search ends with an error;
\* a returned list holds one callback path per graph path, with one callback
\* of the callback set, of the visited name, per node the path visits.
C10_UnknownCallbackAborts ==
    Called =>
        /\ ( \E i \in 1..Len(graph_paths) : \E k \in 1..Len(graph_paths[i]) :
                \/ \A c \in 1..Len(_callbacks) :
                      _callbacks[c].callback_unique_name # graph_paths[i][k].src_node
                \/ \A c \in 1..Len(_callbacks) :
                      _callbacks[c].callback_unique_name # graph_paths[i][k].dst_node )
           => ret.status = "KeyError"
        /\ Returned =>
              /\ Len(ret.paths) = Len(graph_paths)
              /\ \A i \in 1..Len(graph_paths) :
                    /\ Len(ret.paths[i]) = Len(graph_paths[i]) + 1
                    /\ \A k \in 1..Len(graph_paths[i]) :
                          /\ \E c \in 1..Len(_callbacks) :
                                ret.paths[i][k + 1] = _callbacks[c]
                          /\ ret.paths[i][k + 1].callback_unique_name
                                = graph_paths[i][k].dst_node
                          /\ ret.paths[i][k].callback_unique_name
                                = graph_paths[i][k].src_node

\* a query whose graph search found a path of two edges through a callback
\* name the callback set lacks, and which ended with KeyError
C10_Witness ==
    /\ ret.status = "KeyError"
    /\ \E i \in 1..Len(graph_paths) :
          /\ Len(graph_paths[i]) = 2
          /\ graph_paths[i][1].src_node \in to_callback_keys(_callbacks)
          /\ graph_paths[i][1].dst_node \notin to_callback_keys(_callbacks)

(* ------------------------------ C11 ------------------------------------- *)
\* the callback ids of the subscription callbacks whose topic is /clock or
\* /parameter_events
SystemSubscriptionCallbacks ==
    {_formatted.subscription_callbacks_df.rows[i]["callback_id"] :
        i \in {k \in 1..Len(_formatted.subscription_callbacks_df.rows) :
                  _formatted.subscription_callbacks_df.rows[k]["topic_name"]
                      \in {"/clock", "/parameter_events"}}}

\* the callback ids a list of callback group values names
ListedCallbackIds(cbgs) ==
    UNION {{cbgs[g].callback_ids[k] : k \in 1..Len(cbgs[g].callback_ids)} :
              g \in 1..Len(cbgs)}

\* C11: for any sequence of accessor calls on one LttngInfo,
\* get_callback_groups(node) never lists in callback_ids a subscription
\* callback whose topic is /clock or /parameter_events, also when
\* get_callback_groups is the first accessor called.
C11_SystemCallbacksNeverListed ==
    (call.op = "get_callback_groups" /\ result.raised = None) =>
        ListedCallbackIds(result.ret) \cap SystemSubscriptionCallbacks = {}

(* ------------------------------ C12 ------------------------------------- *)

\* C12: once an accessor has stored a cache entry for a node_id, no later
\* accessor call removes or replaces the entry, and every later call of the
\* same accessor for that node_id returns what the first call returned (the
\* first call returns the entry it stores, a later one the entry it finds).
C12_CacheEntriesKept ==
    [][\A accessor \in Accessors :
          /\ \A node_id \in DOMAIN Cache(accessor) :
                /\ node_id \in DOMAIN Cache(accessor)'
                /\ Cache(accessor)'[node_id] = Cache(accessor)[node_id]
                /\ (call'.op = accessor /\ call'.node.node_id = node_id)
                       => result' = [raised |-> None, ret |-> Cache(accessor)[node_id]]
          /\ ( /\ call'.op = accessor
               /\ call'.node.node_id # None
               /\ call'.node.node_id \notin DOMAIN Cache(accessor) )
             => /\ result'.raised = None
                /\ call'.node.node_id \in DOMAIN Cache(accessor)'
                /\ Cache(accessor)'[call'.node.node_id] = result'.ret]_vars

\* get_callback_groups called for a node_id after the subscription callbacks
\* were loaded, returning the entry stored before that: it still lists the
\* callback of a system topic, which a fresh computation would leave out
C12_Witness ==
    /\ call.op = "get_callback_groups"
    /\ call.node.node_id # None
    /\ DOMAIN _id_to_topic # {}
    /\ ListedCallbackIds(result.ret) \cap SystemSubscriptionCallbacks # {}

(* ------------------------------ C13 ------------------------------------- *)
\* the observations of callback groups in the order observed: the rows of
\* data.callback_groups, then the groups of the static executors
RawCbgMappings(data_) ==
    LET dynamic == data_.callback_groups.rows
        groups == data_.callback_groups_static.rows
        execs == data_.executors_static.rows
        static ==
            flatten([g \in 1..Len(groups) |->
                LET of == SelectSeq(execs, LAMBDA e :
                              e.entities_collector_addr
                                  = groups[g].entities_collector_addr)
                IN [k \in 1..Len(of) |->
                       [callback_group_addr |-> groups[g].callback_group_addr,
                        executor_addr |-> of[k].executor_addr,
                        group_type_name |-> groups[g].group_type_name]]])
    IN [i \in 1..Len(dynamic) |->
           [callback_group_addr |-> dynamic[i].callback_group_addr,
            executor_addr |-> dynamic[i].executor_addr,
            group_type_name |-> dynamic[i].group_type_name]] \o static

\* C13: in the reconstructed callback-group table every callback_group_addr
\* occurs in exactly one row, so every callback group has exactly one
\* executor address; when the raw rows hold more than one distinct mapping
\* for a group, the row kept is the last one observed and the conflict is
\* reported as a warning without raising.
C13_OneRowPerGroupLastObserved ==
    call.op = "_build_cbg_df" =>
        LET raw == RawCbgMappings(data)
            of(addr) == SelectSeq(raw, LAMBDA m : m.callback_group_addr = addr)
            kept(addr) == SelectSeq(result.ret,
                              LAMBDA row : row["callback_group_addr"] = addr)
        IN /\ result.raised = None
           /\ \A addr \in {raw[i].callback_group_addr : i \in 1..Len(raw)} :
                 /\ Len(kept(addr)) = 1
                 /\ Cardinality({of(addr)[i].executor_addr :
                                     i \in 1..Len(of(addr))}) > 1
                       => /\ kept(addr)[1]["executor_addr"]
                                = of(addr)[Len(of(addr))].executor_addr
                          /\ \E w \in 1..Len(log) :
                                log[w].callback_group_addr = addr

(* ------------------------------ C14 ------------------------------------- *)
\* C14: no two nodes returned by get_nodes() share a node_id: get_nodes()
\* returns one node per row of the node table, and two of them, also two
\* with the same namespace and name, have different node_ids.
C14_NodeIdsUnique ==
    call.op = "get_nodes" =>
        /\ Len(result.ret) = Len(data.nodes.rows)
        /\ \A i, j \in 1..Len(result.ret) :
              result.ret[i].node_id = result.ret[j].node_id => i = j

\* get_nodes() has returned two nodes of the same namespace and name
C14_Witness ==
    /\ call.op = "get_nodes"
    /\ Len(result.ret) = 2
    /\ \E i, j \in 1..Len(data.nodes.rows) :
          /\ data.nodes.rows[i]["node_handle"] # data.nodes.rows[j]["node_handle"]
          /\ data.nodes.rows[i]["namespace"] = data.nodes.rows[j]["namespace"]
          /\ data.nodes.rows[i]["name"] = data.nodes.rows[j]["name"]
          /\ result.ret[i].node_name = result.ret[j].node_name

(* ------------------------------ C15 ------------------------------------- *)
\* the nodes of get_nodes() that have the name, in the order of get_nodes()
NodesNamed(node_name) ==
    SelectSeq(get_nodes(_formatted), LAMBDA x : x.node_name = node_name)

\* what the accessor returns for each node of the sequence, called with
\* the node_id
ResultsById(accessor, nodes) ==
    [k \in 1..Len(nodes) |-> get(accessor, Self, nodes[k]).ret]

\* C15: an accessor called with a bare name (no node_id) returns the
\* concatenation, in get_nodes() order, of its results for every node of
\* that name, and the empty list when no node has the name.
C15_BareNameConcatenates ==
    (call.op \in Accessors /\ call.node.node_id = None) =>
        /\ result.raised = None
        /\ result.ret = flatten(ResultsById(call.op, NodesNamed(call.node.node_name)))
        /\ NodesNamed(call.node.node_name) = <<>> => result.ret = <<>>

\* an accessor called with a name two nodes have has returned entities of
\* both
C15_Witness ==
    /\ call.op \in Accessors
    /\ call.node.node_id = None
    /\ Len(NodesNamed(call.node.node_name)) = 2
    /\ \A k \in 1..2 :
          ResultsById(call.op, NodesNamed(call.node.node_name))[k] # <<>>
    /\ result.ret # <<>>

(* ------------------------------ C17 ------------------------------------- *)
\* the node's callback groups are exactly one group, and it is not
\* reentrant
ExactlyOneNonReentrant(node) ==
    LET cbgs == _get_callback_groups(_formatted, _id_to_topic, node.node_id).ret
    IN /\ Len(cbgs) = 1
       /\ cbgs[1].callback_group_type_name # "reentrant"

\* the nodes the last call was about
CallNodes ==
    IF call.node.node_id = None THEN NodesNamed(call.node.node_name)
    ELSE <<call.node>>

\* no entity of the list carries what a bind operation fills in
Unbound(accessor, entities) ==
    \A k \in 1..Len(entities) :
        CASE accessor \in {"get_timer_callbacks", "get_subscription_callbacks"} ->
                 entities[k].publish_topic_names.is_None
          [] accessor = "get_publishers" -> entities[k].callback_ids.is_None
          [] OTHER -> TRUE

\* C17: can_bind(node) is true only if the node's callback groups are
\* exactly one group that is not reentrant; for every other node the
\* accessors call no bind operation, return the unbound entities and raise
\* no error.
C17_BindOnlySingleExclusiveGroup ==
    /\ \A i \in 1..Len(get_nodes(_formatted)) :
          can_bind(get_nodes(_formatted)[i])
              => ExactlyOneNonReentrant(get_nodes(_formatted)[i])
    /\ (/\ call.op \in Accessors
        /\ \A k \in 1..Len(CallNodes) : ~ExactlyOneNonReentrant(CallNodes[k]))
           => /\ call.binds = <<>>
              /\ result.raised = None
              /\ Unbound(call.op, result.ret)

\* an accessor has returned callbacks or publishers of a node with two
\* callback groups, one of them reentrant
C17_Witness ==
    /\ call.op \in Accessors \ {"get_callback_groups"}
    /\ call.node.node_id # None
    /\ ~ExactlyOneNonReentrant(call.node)
    /\ Len(_get_callback_groups(_formatted, _id_to_topic, call.node.node_id).ret) = 2
    /\ result.ret # <<>>
    /\ Unbound(call.op, result.ret)

(* ------------------------------ C18 ------------------------------------- *)
\* C18: causal binding is an option of the caller, off by default: there is
\* a value of the option under which can_bind(node) is true for a node
\* whose callback groups are exactly one non-reentrant group.  (Neither
\* LttngInfo nor PublisherBinder takes such an option, so can_bind is the
\* same whichever value is chosen.)
C18_BindingCanBeEnabled ==
    \A i \in 1..Len(get_nodes(_formatted)) :
        ExactlyOneNonReentrant(get_nodes(_formatted)[i]) =>
            \E enableCausalBinding \in BOOLEAN : can_bind(get_nodes(_formatted)[i])

(* ------------------------------ C19 ------------------------------------- *)
\* the execution records of a callback: the callback records of its
\* callback object and, for a subscription callback, of its intra-process
\* callback object, that have a start and an end
ExecutionRecords(callback_info) ==
    SelectSeq(_source.callback_records,
        LAMBDA x :
            /\ {"callback_start_timestamp", "callback_end_timestamp"} \subseteq DOMAIN x
            /\ \/ x.callback_object = callback_info.callback_object
               \/ /\ is_subscription_callback(callback_info)
                  /\ ~callback_info.callback_object_intra.is_None
                  /\ x.callback_object = callback_info.callback_object_intra.value)

\* the representative publish timestamp of the publisher of the last call
PublishTime == _get_publish_time(_source, call.publisher_info)

\* C19: when the execution records of the callback hold an interval with
\* callback_start_timestamp < t < callback_end_timestamp, t the
\* representative publish timestamp of the publisher,
\* _is_consistent(publisher, callback) returns true, whatever other
\* intervals the callback has and in whatever order the records are stored.
C19_ContainingIntervalIsConsistent ==
    (/\ call.op = "_is_consistent"
     /\ ~PublishTime.is_None
     /\ \E k \in 1..Len(ExecutionRecords(call.callback_info)) :
           LET x == ExecutionRecords(call.callback_info)[k]
           IN x.callback_start_timestamp < PublishTime.value
              /\ PublishTime.value < x.callback_end_timestamp)
        => result.ret = TRUE

(* ------------------------------ C20 ------------------------------------- *)
\* C20: if the representative publish timestamp is greater than the end
\* timestamp of every execution record of the callback (inter- and
\* intra-process callback object), or the publisher has no publish record,
\* _is_consistent(publisher, callback) returns false.
C20_AfterEveryIntervalIsInconsistent ==
    (/\ call.op = "_is_consistent"
     /\ \/ PublishTime.is_None
        \/ \A k \in 1..Len(ExecutionRecords(call.callback_info)) :
              ExecutionRecords(call.callback_info)[k].callback_end_timestamp
                  < PublishTime.value)
        => result.ret = FALSE

\* _is_consistent has answered for a subscription callback whose records,
\* of both callback objects, all end before the publish timestamp
C20_Witness ==
    /\ call.op = "_is_consistent"
    /\ ~PublishTime.is_None
    /\ is_subscription_callback(call.callback_info)
    /\ \E k \in 1..Len(ExecutionRecords(call.callback_info)) :
          ExecutionRecords(call.callback_info)[k].callback_object = 1111
    /\ \E k \in 1..Len(ExecutionRecords(call.callback_info)) :
          ExecutionRecords(call.callback_info)[k].callback_object = 1112
    /\ \A k \in 1..Len(ExecutionRecords(call.callback_info)) :
          ExecutionRecords(call.callback_info)[k].callback_end_timestamp
              < PublishTime.value
    /\ result.ret = FALSE

(* ------------------------------ C16 ------------------------------------- *)
Families == Accessors \cup {"get_executors"}

\* the tables the trace has no events for
Absent == {t \in DOMAIN data : data[t] = NoTable}

\* the families whose joins cannot be performed without the tables: each
\* callback family joins its own three tables, callback_objects and
\* callback_symbols; the callback groups are listed through the callbacks
\* and the callback group tables; the executors are joined with the
\* callback groups
AffectedFamilies(tables) ==
    (IF tables \cap {"timers", "timer_node_links", "callback_group_timer"} # {}
     THEN {"get_timer_callbacks"} ELSE {})
    \cup (IF tables \cap {"subscriptions", "subscription_objects",
                          "callback_group_subscription"} # {}
          THEN {"get_subscription_callbacks"} ELSE {})
    \cup (IF tables \cap {"callback_objects", "callback_symbols"} # {}
          THEN {"get_timer_callbacks", "get_subscription_callbacks",
                "get_callback_groups"} ELSE {})
    \cup (IF "publishers" \in tables THEN {"get_publishers"} ELSE {})
    \cup (IF {"callback_groups", "callback_groups_static"} \subseteq tables
          THEN {"get_callback_groups", "get_executors"} ELSE {})
    \cup (IF {"executors", "executors_static"} \subseteq tables
          THEN {"get_executors"} ELSE {})

\* the families that lose the entities of the tables and keep the others:
\* the callback groups and the executors when one of their tables or a
\* callback family is missing
ReducedFamilies(tables) ==
    ((IF tables \cap {"callback_groups", "callback_groups_static", "executors",
                      "executors_static"} # {}
      THEN {"get_callback_groups", "get_executors"} ELSE {})
     \cup (IF tables \cap {"timers", "timer_node_links", "callback_group_timer",
                           "subscriptions", "subscription_objects",
                           "callback_group_subscription"} # {}
           THEN {"get_callback_groups"} ELSE {}))
        \ AffectedFamilies(tables)

\* what the family is for a node in the complete trace
CompleteResult(family, node_id) ==
    LET complete == DataFrameFormatted(CompleteTrace) IN
    CASE family = "get_timer_callbacks" ->
             _load_timer_cbs_without_pub(complete)[node_id]
      [] family = "get_subscription_callbacks" ->
             _load_sub_cbs_without_pub(complete)[node_id]
      [] family = "get_publishers" ->
             get_publishers_without_cb_bind(complete, node_id)
      [] family = "get_callback_groups" ->
             _get_callback_groups(complete, _id_to_topic, node_id).ret
      [] family = "get_executors" -> get_executors(complete).ret

\* what the last call returns in the complete trace
Expected ==
    IF call.op = "get_executors" THEN CompleteResult("get_executors", None)
    ELSE flatten([k \in 1..Len(CallNodes) |->
                     CompleteResult(call.op, CallNodes[k].node_id)])

\* the callback groups a list of callback groups or of executors names
GroupIds(family, entities) ==
    IF family = "get_executors"
    THEN UNION {{entities[k].callback_group_ids[i] :
                    i \in 1..Len(entities[k].callback_group_ids)} :
                   k \in 1..Len(entities)}
    ELSE {entities[k].callback_group_id : k \in 1..Len(entities)}

\* C16: when an optional upstream table (and with it its join column) is
\* absent, nothing is raised, neither by the construction nor by an
\* accessor; every family whose join cannot be performed is the empty list;
\* the families that do not read the table are what they are in the
\* complete trace, and the callback groups and executors that remain are
\* groups and executors of the complete trace.
C16_AbsentTableEmptiesItsFamily ==
    /\ result.raised = None
    /\ call.op \in Families =>
          /\ call.op \in AffectedFamilies(Absent) => result.ret = <<>>
          /\ call.op \in ReducedFamilies(Absent) =>
                GroupIds(call.op, result.ret) \subseteq GroupIds(call.op, Expected)
          /\ call.op \notin AffectedFamilies(Absent) \cup ReducedFamilies(Absent) =>
                /\ call.op # "get_callback_groups" => result.ret = Expected
                /\ call.op = "get_callback_groups" =>
                      [k \in 1..Len(result.ret) |-> result.ret[k].callback_group_id]
                          = [k \in 1..Len(Expected) |-> Expected[k].callback_group_id]

\* the timer callbacks of a trace without timer_node_links have been asked
\* for, after the subscription callbacks of a node have been returned
C16_Witness ==
    /\ call.op = "get_timer_callbacks"
    /\ call.node.node_id # None
    /\ Absent = {"timer_node_links"}
    /\ result.ret = <<>>
    /\ CompleteResult("get_timer_callbacks", call.node.node_id) # <<>>
    /\ \E node_id \in DOMAIN _sub_cb_cache : _sub_cb_cache[node_id] # <<>>

(* ------------------------------- C21 ------------------------------------ *)
BindPasses == {"bind_pub_topics_and_timer_cbs", "bind_pub_topics_and_sub_cbs"}

\* the publishers of the node of the pass that the timing test accepts for
\* the callback
ConsistentPublishers(callback_info) ==
    LET publishers == get_publishers_without_cb_bind(_formatted, BindNode.node_id)
    IN {i \in 1..Len(publishers) :
           _is_consistent(_source, publishers[i], callback_info)}

\* C21: after a bind pass every callback of the returned list has a tuple
\* as publish_topic_names, never None; a callback that no publisher is
\* consistent with has the empty tuple; and the pass raises nothing when no
\* publisher is consistent with any callback it was given.
C21_BoundNamesAreTuples ==
    call.op \in BindPasses =>
        /\ result.raised = None =>
               \A i \in 1..Len(result.ret) :
                   /\ ~result.ret[i].publish_topic_names.is_None
                   /\ ConsistentPublishers(result.ret[i]) = {} =>
                          result.ret[i].publish_topic_names.value = <<>>
        /\ (\A k \in 1..Len(call.callbacks) :
                ConsistentPublishers(call.callbacks[k]) = {})
               => result.raised = None

\* a subscription pass that bound one callback and left another, which no
\* publisher is consistent with, with the empty tuple
C21_Witness ==
    /\ call.op = "bind_pub_topics_and_sub_cbs"
    /\ result.raised = None
    /\ \E i, j \in 1..Len(result.ret) :
           /\ result.ret[i].publish_topic_names = Some(<<"/chatter">>)
           /\ ConsistentPublishers(result.ret[j]) = {}
           /\ result.ret[j].publish_topic_names = Some(<<>>)

(* ------------------------------- C22 ------------------------------------ *)
Composed == call.op = "compose_variable_passing_records"

Range(seq) == {seq[i] : i \in 1..Len(seq)}

\* the executions of the read callback that begin at the end of the
\* execution write or later
ReadsAfter(write) ==
    {read \in Range(get_callback_records(_records, call.read_callback)) :
        read["callback_start_timestamp"] >= write["callback_end_timestamp"]}

\* the row the claim gives a write record
PairedRow(write) ==
    IF ReadsAfter(write) = {}
    THEN [callback_end_timestamp |-> write["callback_end_timestamp"]]
    ELSE [callback_end_timestamp |-> write["callback_end_timestamp"],
          callback_start_timestamp |->
              CHOOSE t \in {read["callback_start_timestamp"] :
                               read \in ReadsAfter(write)} :
                  \A read \in ReadsAfter(write) :
                      t <= read["callback_start_timestamp"]]

\* how often row occurs in rows
Count(rows, row) == Cardinality({i \in 1..Len(rows) : rows[i] = row})

\* C23: the result of compose_variable_passing_records has one row for every
\* write record: the end of the write with the smallest start of a read
\* record that is not earlier than this end, or the end of the write alone
\* when no read record begins that late.
C23_EveryWriteOncePairedWithNextRead ==
    Composed =>
        LET writes == get_callback_records(_records, call.write_callback)
            paired == [i \in 1..Len(writes) |-> PairedRow(writes[i])]
        IN /\ Len(result.ret) = Len(writes)
           /\ \A row \in Range(paired) \cup Range(result.ret) :
                  Count(result.ret, row) = Count(paired, row)

\* a write that a read follows and a write that no read follows
C23_Witness ==
    /\ Composed
    /\ call.write_callback # call.read_callback
    /\ \E i, k \in 1..Len(result.ret) :
           /\ "callback_start_timestamp" \in DOMAIN result.ret[i]
           /\ "callback_start_timestamp" \notin DOMAIN result.ret[k]

(* ------------------------------- C24 ------------------------------------ *)
\* the records, with a start and an end, of the callback object the
\* inter-process check scans, in the order of the scan
InterRecords(callback_info) ==
    SelectSeq(_source.callback_records,
        LAMBDA x :
            /\ {"callback_start_timestamp", "callback_end_timestamp"} \subseteq DOMAIN x
            /\ x.callback_object = callback_info.callback_object)

\* the interval of the record holds t; the interval lies entirely after t
Holds(x, t) == x.callback_start_timestamp < t /\ t < x.callback_end_timestamp
LiesAfter(x, t) == x.callback_start_timestamp > t /\ x.callback_end_timestamp > t

\* the scan of records meets an interval entirely after t before any
\* interval that holds t
MeetsLaterFirst(records, t) ==
    \E k \in 1..Len(records) :
        /\ LiesAfter(records[k], t)
        /\ \A j \in 1..(k - 1) : ~Holds(records[j], t)

\* the scan of records meets an interval that holds t before any interval
\* entirely after t
MeetsHoldingFirst(records, t) ==
    \E k \in 1..Len(records) :
        /\ Holds(records[k], t)
        /\ \A j \in 1..(k - 1) : ~LiesAfter(records[j], t)

\* C24: in _is_consistent the intra-process check decides only when the
\* inter-process check is undetermined: when the inter-process scan meets an
\* interval entirely after the publish timestamp before any interval that
\* holds it, the pair is rejected, also when an interval of
\* callback_object_intra holds the publish timestamp; and for a timer
\* callback the outcome is that of the inter-process check alone.
C24_IntraOnlyWhenInterUndetermined ==
    (call.op = "_is_consistent" /\ ~PublishTime.is_None) =>
        /\ MeetsLaterFirst(InterRecords(call.callback_info), PublishTime.value)
               => result.ret = FALSE
        /\ ~is_subscription_callback(call.callback_info)
               => result.ret = MeetsHoldingFirst(InterRecords(call.callback_info),
                                                 PublishTime.value)

(* ------------------------------- C25 ------------------------------------ *)
\* the publishers a pass tries, in the order it tries them
Candidates ==
    SelectSeq(get_publishers_without_cb_bind(_formatted, BindNode.node_id),
        LAMBDA x :
            x.topic_name \notin
                (IF call.op = "bind_pub_topics_and_timer_cbs"
                 THEN {"/parameter_events", "/rosout"}
                 ELSE {"/parameter_events", "/rosout", "/clock"}))

\* the positions of the candidates that are consistent with the callback
ConsistentCandidates(callback_info) ==
    {i \in 1..Len(Candidates) : _is_consistent(_source, Candidates[i], callback_info)}

\* the callbacks the pass enumerates
Enumerated ==
    IF call.op = "bind_pub_topics_and_timer_cbs" THEN call.callbacks
    ELSE SelectSeq(call.callbacks,
             LAMBDA x : x.subscribe_topic_name
                            \notin {"/parameter_events", "/rosout", "/clock"})

\* C25: in one bind pass every callback that has a consistent candidate
\* publisher ends the pass with exactly one topic in publish_topic_names,
\* that of the first candidate consistent with it, and no callback ends the
\* pass with more than one topic.
C25_OneTopicForEveryCallbackWithCandidate ==
    (call.op \in BindPasses
     /\ \E k \in 1..Len(Enumerated) : ConsistentCandidates(Enumerated[k]) # {})
        => /\ result.raised = None
           /\ \A i \in 1..Len(result.ret) :
                  /\ ~result.ret[i].publish_topic_names.is_None
                  /\ Len(result.ret[i].publish_topic_names.value) <= 1
                  /\ ConsistentCandidates(result.ret[i]) # {} =>
                         result.ret[i].publish_topic_names.value =
                             <<Candidates[
                                   CHOOSE c \in ConsistentCandidates(result.ret[i]) :
                                       \A d \in ConsistentCandidates(result.ret[i]) :
                                           c <= d].topic_name>>

(* ------------------------------- C26 ------------------------------------ *)
\* the records of the publisher of the last call in a stream, in the order
\* the stream holds them
RecordsOfPublisher(stream) ==
    SelectSeq(stream,
              LAMBDA x : x.publisher_handle = call.publisher_info.publisher_handle)

\* the record the claim selects among k >= 1 records: the one after the
\* first ten, the last one when there are no more than ten
Selected(records) ==
    records[IF Len(records) <= 10 THEN Len(records) ELSE 11]

\* C26: _get_publish_time takes the inter-process publish records of the
\* publisher handle when there is one and the intra-process ones otherwise;
\* of the k >= 1 records it returns the timestamp of the record at
\* zero-based index 10, the one after the first ten, or of the last record
\* when k <= 10; it returns None only when neither stream has a record of
\* the handle.
C26_PublishTimeOfRecordAfterTheTenth ==
    call.op = "_get_publish_time" =>
        LET inter == RecordsOfPublisher(_source.inter_proc_comm_records)
            intra == RecordsOfPublisher(_source.intra_proc_comm_records)
        IN IF Len(inter) > 0
           THEN result.ret = Some(Selected(inter).rclcpp_publish_timestamp)
           ELSE IF Len(intra) > 0
           THEN result.ret = Some(Selected(intra).rclcpp_intra_publish_timestamp)
           ELSE result.ret.is_None

\* the publisher has more than eleven inter-process records, between
\* records of another publisher, and intra-process records as well
C26_Witness ==
    /\ call.op = "_get_publish_time"
    /\ Len(RecordsOfPublisher(_source.inter_proc_comm_records)) > 11
    /\ Len(RecordsOfPublisher(_source.inter_proc_comm_records))
           < Len(_source.inter_proc_comm_records)
    /\ Len(RecordsOfPublisher(_source.intra_proc_comm_records)) > 0
    /\ result.ret = Some(111)

(* ------------------------------- C27 ------------------------------------ *)
\* the node handles of the nodes the last call was about
CallNodeHandles ==
    {_formatted.nodes_df.rows[i]["node_handle"] :
        i \in {k \in 1..Len(_formatted.nodes_df.rows) :
                  \E n \in 1..Len(CallNodes) :
                      _formatted.nodes_df.rows[k]["node_id"] = CallNodes[n].node_id}}

\* the rows of a table of the trace data that belong to these nodes
RowsOfCallNodes(table) ==
    SelectSeq(table.rows, LAMBDA row : row["node_handle"] \in CallNodeHandles)

\* the topics of a list of rows or of entities
Topics(entities, column) == {entities[i][column] : i \in 1..Len(entities)}

FreshSelf ==
    [Self EXCEPT !._binder_cache = {},
                 !._timer_cb_cache = EmptyDict,
                 !._sub_cb_cache = EmptyDict,
                 !._pub_cache = EmptyDict,
                 !._cbg_cache = EmptyDict,
                 !._id_to_topic = EmptyDict,
                 !._sub_cb_cache_without_pub = Nothing(EmptyDict),
                 !._timer_cb_cache_without_pub = Nothing(EmptyDict)]

\* C28: what an accessor returns for a node does not depend on the accessor
\* calls made before on the same object: it is what the accessor returns
\* when it is the first call on an object constructed from the same trace.
C28_ResultIndependentOfEarlierCalls ==
    /\ call.op \in Accessors =>
           \E first \in {get(call.op, FreshSelf, call.node)} :
               result = [raised |-> first.self.raised, ret |-> first.ret]
    /\ call.op = "get_executors" => result = get_executors(_formatted)

(* ------------------------------- C29 ------------------------------------ *)
\* the edges of a new GraphSearcher over the same edges: none is arrived
Unarrived(branches) ==
    [i \in 1..Len(branches) |->
        GraphBranch(branches[i].id, branches[i].src_node, branches[i].dst_node)]

\* C29: a search leaves the edge list of the searcher as it was, no edge
\* marked arrived, none added or removed, and every search on the
\* searcher, the first as any later one, with whatever endpoints, gives what
\* a search with these endpoints gives on a new searcher over the same
\* edges.
C29_SearchLeavesBranchesUnchanged ==
    [][/\ _branches' = _branches
       /\ _branches' = Unarrived(_branches)
       /\ ret' = search_outcome(search(Unarrived(_branches), src_node', dst_node'))
      ]_vars

\* a search has returned a path of two edges or more, so that edges were
\* marked in the copies of the list, and the list of the searcher has no
\* edge marked
C29_Witness ==
    /\ Returned
    /\ \E i \in 1..Len(graph_paths) : Len(graph_paths[i]) >= 2
    /\ _branches = Unarrived(_branches)

(* ------------------------------- C30 ------------------------------------ *)
\* C30: whatever constructions were made, some of them failing while the
\* trace is loaded, Lttng.load_dir is a trace_dir only if the data the
\* object holds were loaded from that trace_dir; a construction for the
\* trace_dir of a load that failed loads the trace again and does not
\* return early.
C30_LoadDirNamesTheLoadedTrace ==
    load_dir # None => (_dataframe = load_dir /\ _records = load_dir)

=============================================================================
